---- MODULE Spec2Model ----
(***************************************************************************)
(* data-x: scan-and-aggregation engine.                                    *)
(*                                                                         *)
(* The module models, from the sources,                                    *)
(*   - the tree arena (src/tree/node.rs),                                  *)
(*   - the local scanner with its parallel stat phase and sequential build *)
(*     phase (src/scanner/walker.rs),                                      *)
(*   - the remote scanner in listing mode (src/remote.rs),                 *)
(*   - the bounded progress channel (std::sync::mpsc::sync_channel),       *)
(*   - the terminal UI's streaming tree (src/app.rs),                      *)
(*   - the duplicate detector (src-tauri/src/duplicates/detector.rs).      *)
(*                                                                         *)
(* Paths are sequences of name components relative to the scan root: the   *)
(* root is <<>>, its entries are <<1>>, <<2>>, ..., theirs <<1,1>>, ...    *)
(* u64 arithmetic is modelled on naturals far below u64::MAX, so the       *)
(* saturating_add of add_size_to_ancestors never saturates.                *)
(***************************************************************************)
EXTENDS Integers, Sequences, FiniteSets, TLC

\* ------------------------------------------------------------------------
\* Bounds of the model
\* ------------------------------------------------------------------------
\* capacity of the progress queue; the program uses sync_channel(1000)
QueueCap == 3
\* NodeDiscovered is sent for the first NodeBurst-1 nodes; the program uses 100
NodeBurst == 2
\* ... and afterwards for every NodeStride-th node; the program uses 50
NodeStride == 3
\* a Scanning event is forced after ScanStride entries; the program uses 100
ScanStride == 2
\* files directly under the scan root
MaxFiles == 1
\* readable directories directly under the scan root
MaxDirs == 1
\* files inside each of those directories
MaxSub == 1
\* unreadable directories directly under the scan root
MaxBad == 1
\* the remote scanner reports every ListingStride-th line; the program uses 100
ListingStride == 2
\* number of lines of a remote listing
MaxLines == 3
\* sizes a remote listing line may report are 0..MaxLineSize
MaxLineSize == 1
\* files the duplicate detector's walk yields
MaxDupFiles == 3
\* length of the prefix partial_hash reads; the program uses 4096
PartialHashSize == 1
\* enumeration reports every DupScanStride-th file; the program uses 1000
DupScanStride == 2
\* prefix hashing reports every DupHashStride-th file; the program uses 100
DupHashStride == 2
\* entries directly under the root the desktop scanner is given
DeskMaxTop == 2
\* files inside each readable directory under that root
DeskMaxSub == 1
\* max_depth of a desktop scan is None or Some(0..DeskMaxDepth)
DeskMaxDepth == 1
\* the desktop scanner reports every DeskStride-th entry; the program uses 100
DeskStride == 2
\* CACHE_VERSION of cache.rs
CACHE_VERSION == 1
\* CACHE_MAX_AGE_SECS of cache.rs: 86400 * 7
CACHE_MAX_AGE_SECS == 604800
\* nodes of a cache file that save did not write
MaxCacheNodes == 2
\* nodes of a scanned tree that is saved to the cache
MaxTreeNodes == 3

\* ------------------------------------------------------------------------
\* Paths
\* ------------------------------------------------------------------------
\* a value that is no path of the model (names start at 1)
NoPath == <<0>>
NoNode == 0

\* PathBuf::parent()
PathParent(p) ==
    IF p = NoPath \/ Len(p) = 0 THEN NoPath ELSE SubSeq(p, 1, Len(p) - 1)

\* Path::components().count(), up to the constant depth of the root
Depth(p) == Len(p)

\* ------------------------------------------------------------------------
\* Tree arena (src/tree/node.rs)
\* ------------------------------------------------------------------------
\* FileNode::new(path, is_dir), with the arena link to the parent
FileNodeNew(path, is_dir) ==
    [path |-> path, size |-> 0, is_dir |-> is_dir,
     file_count |-> IF is_dir THEN 0 ELSE 1, excluded |-> FALSE,
     parent |-> NoNode]

\* FileTree::new()
FileTreeNew == [arena |-> <<>>, root |-> NoNode]

\* FileTree::with_root(path)
with_root(path) == [arena |-> <<FileNodeNew(path, TRUE)>>, root |-> 1]

\* FileTree::add_child(parent_id, node): the new node gets the next arena
\* index and is appended after the parent's existing children
add_child(tree, parent_id, node) ==
    [tree EXCEPT !.arena = Append(@, [node EXCEPT !.parent = parent_id])]

\* id returned by add_child
NewNodeId(tree) == Len(tree.arena) + 1

RECURSIVE ChildrenFrom(_, _, _)
ChildrenFrom(arena, id, i) ==
    IF i > Len(arena) THEN <<>>
    ELSE IF arena[i].parent = id THEN <<i>> \o ChildrenFrom(arena, id, i + 1)
    ELSE ChildrenFrom(arena, id, i + 1)

\* FileTree::get_children(id): children in insertion order
get_children(arena, id) == ChildrenFrom(arena, id, 1)

\* FileTree::get_parent(id)
get_parent(arena, id) == arena[id].parent

\* what a node hands to its parent in calculate_sizes_recursive
ReportedSize(n) == IF n.excluded THEN 0 ELSE n.size
ReportedCount(n) == IF n.excluded THEN 0 ELSE n.file_count

RECURSIVE calculate_sizes_recursive(_, _)
RECURSIVE AggregateChildren(_, _, _, _, _)

\* the `for child_id in children` loop of calculate_sizes_recursive
AggregateChildren(arena, children, i, total_size, total_count) ==
    IF i > Len(children)
    THEN [arena |-> arena, size |-> total_size, count |-> total_count]
    ELSE LET r == calculate_sizes_recursive(arena, children[i])
         IN AggregateChildren(r.arena, children, i + 1,
                              total_size + r.size, total_count + r.count)

\* FileTree::calculate_sizes_recursive(node_id) -> (size, count)
calculate_sizes_recursive(arena, node_id) ==
    LET children == get_children(arena, node_id)
    IN IF children = <<>>
       THEN [arena |-> arena,
             size |-> ReportedSize(arena[node_id]),
             count |-> ReportedCount(arena[node_id])]
       ELSE LET agg == AggregateChildren(arena, children, 1, 0, 0)
                updated ==
                    IF ~agg.arena[node_id].excluded
                    THEN [agg.arena EXCEPT ![node_id].size = agg.size,
                                           ![node_id].file_count = agg.count]
                    ELSE agg.arena
            IN [arena |-> updated,
                size |-> ReportedSize(updated[node_id]),
                count |-> ReportedCount(updated[node_id])]

\* FileTree::calculate_sizes()
calculate_sizes(tree) ==
    IF tree.root # NoNode
    THEN [tree EXCEPT !.arena = calculate_sizes_recursive(tree.arena, tree.root).arena]
    ELSE tree

RECURSIVE AddUp(_, _, _, _)
\* the `while let Some(id) = current` loop of add_size_to_ancestors
AddUp(arena, current, size, file_count) ==
    IF current = NoNode THEN arena
    ELSE LET a2 == IF ~arena[current].excluded
                   THEN [arena EXCEPT ![current].size = @ + size,
                                      ![current].file_count = @ + file_count]
                   ELSE arena
         IN AddUp(a2, get_parent(a2, current), size, file_count)

\* FileTree::add_size_to_ancestors(node_id, size, file_count)
add_size_to_ancestors(tree, node_id, size, file_count) ==
    [tree EXCEPT !.arena = AddUp(tree.arena, node_id, size, file_count)]

RECURSIVE Preorder(_, _)
RECURSIVE PreorderList(_, _, _)
PreorderList(arena, ids, i) ==
    IF i > Len(ids) THEN <<>>
    ELSE Preorder(arena, ids[i]) \o PreorderList(arena, ids, i + 1)

\* NodeId::descendants(): the node, then its subtree in pre-order
Preorder(arena, id) == <<id>> \o PreorderList(arena, get_children(arena, id), 1)

RECURSIVE FirstWithPath(_, _, _, _)
FirstWithPath(arena, order, i, path) ==
    IF i > Len(order) THEN NoNode
    ELSE IF arena[order[i]].path = path THEN order[i]
    ELSE FirstWithPath(arena, order, i + 1, path)

\* FileTree::find_by_path(path)
find_by_path(tree, path) ==
    IF tree.root = NoNode THEN NoNode
    ELSE FirstWithPath(tree.arena, Preorder(tree.arena, tree.root), 1, path)

\* FileTree::clone_children(source, source_parent, dest_parent, dest)
RECURSIVE clone_children(_, _, _, _)
RECURSIVE CloneEach(_, _, _, _, _)
CloneEach(source, ids, i, dest_parent, dest) ==
    IF i > Len(ids) THEN dest
    ELSE LET child == source[ids[i]]
             new_child_id == NewNodeId(dest)
             d2 == add_child(dest, dest_parent,
                             [FileNodeNew(child.path, child.is_dir) EXCEPT
                                 !.size = child.size,
                                 !.file_count = child.file_count,
                                 !.excluded = child.excluded])
         IN CloneEach(source, ids, i + 1, dest_parent,
                      clone_children(source, ids[i], new_child_id, d2))

clone_children(source, source_parent, dest_parent, dest) ==
    CloneEach(source, get_children(source, source_parent), 1, dest_parent, dest)

\* impl Clone for FileTree: a deep copy rebuilt in pre-order, with new ids
CloneTree(tree) ==
    IF tree.root = NoNode THEN FileTreeNew
    ELSE LET root_node == tree.arena[tree.root]
             fresh == with_root(root_node.path)
             copied == [fresh EXCEPT !.arena[1].size = root_node.size,
                                     !.arena[1].file_count = root_node.file_count,
                                     !.arena[1].excluded = root_node.excluded]
         IN clone_children(tree.arena, tree.root, 1, copied)

\* ------------------------------------------------------------------------
\* Inputs of a scan
\* ------------------------------------------------------------------------
Workers == {"w1", "w2"}

\* bytes that stat reports for the file at path p
FileSizeOf(p) == p[Len(p)]

OkEntry(p, is_dir) ==
    [ok |-> TRUE, path |-> p, is_dir |-> is_dir,
     size |-> IF is_dir THEN 0 ELSE FileSizeOf(p)]
ErrEntry(p) == [ok |-> FALSE, path |-> p, is_dir |-> FALSE, size |-> 0]

RECURSIVE FileEntries(_, _, _)
\* files prefix \o <<from>>, ..., prefix \o <<to>>
FileEntries(prefix, from, to) ==
    IF from > to THEN <<>>
    ELSE <<OkEntry(prefix \o <<from>>, FALSE)>> \o FileEntries(prefix, from + 1, to)

RECURSIVE DirEntries(_, _, _)
\* readable directories <<from>>..<<to>>, each followed by its nsub files
DirEntries(from, to, nsub) ==
    IF from > to THEN <<>>
    ELSE <<OkEntry(<<from>>, TRUE)>> \o FileEntries(<<from>>, 1, nsub)
         \o DirEntries(from + 1, to, nsub)

RECURSIVE BadEntries(_, _)
\* unreadable directories: walkdir yields the directory, then the error of
\* opening it
BadEntries(from, to) ==
    IF from > to THEN <<>>
    ELSE <<OkEntry(<<from>>, TRUE), ErrEntry(<<from>>)>> \o BadEntries(from + 1, to)

\* what WalkDir::new(root).into_iter().collect() yields, in walk order, for a
\* root holding nfiles files, ndirs directories of nsub files and nbad
\* unreadable directories
WalkEntries(nfiles, ndirs, nsub, nbad) ==
    <<OkEntry(<<>>, TRUE)>>
    \o FileEntries(<<>>, 1, nfiles)
    \o DirEntries(nfiles + 1, nfiles + ndirs, nsub)
    \o BadEntries(nfiles + ndirs + 1, nfiles + ndirs + nbad)

LocalInputs ==
    {WalkEntries(nf, nd, ns, nb) :
        nf \in 0..MaxFiles, nd \in 0..MaxDirs, ns \in 0..MaxSub, nb \in 0..MaxBad}

\* paths a remote listing may name
RemotePaths == {<<>>, <<1>>, <<1, 1>>}

\* one line of the remote listing: `fields` pipe-separated fields
ListingLines ==
    {[fields |-> 3, path |-> p, type |-> "d", size |-> s] :
        p \in RemotePaths, s \in 0..MaxLineSize}
    \cup {[fields |-> 3, path |-> p, type |-> "f", size |-> 1 + Len(p)] :
        p \in RemotePaths}
    \cup {[fields |-> 1, path |-> <<>>, type |-> "f", size |-> 0]}

RECURSIVE SeqsUpTo(_, _)
SeqsUpTo(S, n) ==
    IF n = 0 THEN {<<>>}
    ELSE LET shorter == SeqsUpTo(S, n - 1)
         IN shorter \cup {Append(q, x) : q \in {r \in shorter : Len(r) = n - 1}, x \in S}

RemoteInputs == SeqsUpTo(ListingLines, MaxLines)

\* ------------------------------------------------------------------------
\* State
\* ------------------------------------------------------------------------
VARIABLES
    kind,                \* "local" (Scanner) or "remote" (RemoteScanner)
    root_state,          \* what the root path is on disk: "dir", "file", "missing"
    entries,             \* local: the collected walkdir entries
    lines,               \* remote: the lines the remote command prints
    exit_status,         \* exit status of the remote listing command
    pc,                  \* position of the scanning thread
    result,              \* what scan() returned, "none" while running
    wk,                  \* local: per rayon worker, the entry in hand
    taken,               \* local: entries handed to a worker
    processed,           \* local: entries that yielded Some(..)
    files_found,         \* local: AtomicU64; remote: the u64 of scan_with_find
    bytes_processed,     \* local: AtomicU64
    last_progress_count, \* local: AtomicU64
    interrupted,         \* local: the AtomicBool created by scan()
    cancel_requested,    \* the user asked for cancellation
    tree,                \* the FileTree under construction
    path_to_node,        \* path -> NodeId map of the build
    sorted_entries,      \* local: processed entries sorted by depth
    bi,                  \* index of the next element of the build loop
    total_size,
    total_files,
    nodes_sent,
    emitted,             \* events placed on the progress channel, in order
    nrecv,               \* number of events the receiver has taken
    rx_alive,            \* the Receiver has not been dropped
    \* terminal UI (App)
    ui_tree,             \* App::tree, an Option<FileTree>
    scan_state,          \* App::scan_state
    has_receiver,        \* App::progress_receiver is Some
    toggles,             \* number of Exclude commands handled
    \* duplicate detector (find_duplicates)
    dup_files,           \* the regular files of the walk, in walk order
    dup_config,          \* DuplicateScanConfig
    dup_pc,              \* position of find_duplicates in its code
    dup_i,               \* index of the next walk entry
    dup_total_files,     \* total_files
    size_groups,         \* size -> files of that size
    dup_todo,            \* keys of the map being iterated not yet visited
    dup_cur,             \* size group the phase 2 loop is in (0: none)
    dup_j,               \* index of the next file of that group
    files_processed,     \* AtomicU64 files_processed
    partial_hash_groups, \* (size, prefix hash) -> files
    full_hash_results,   \* (hash, size, file, modified) tuples
    dup_emitted,         \* every progress event emitted so far
    cancel_flag,         \* the caller's AtomicBool
    dup_cancel_at,       \* number of events emitted when the flag was set
    dup_result,          \* what find_duplicates returned
    \* desktop scanner (src-tauri/src/scanner.rs)
    desk_root,           \* what the scanned path is on disk
    desk_top,            \* kinds of the entries directly under it
    desk_sub,            \* number of files in each readable directory
    max_depth,           \* Option<usize>, NoDepth for None
    desk_flag,           \* cancel_flag: Option<Arc<AtomicBool>>
    desk_pc,             \* position of the scan command
    desk_stack,          \* the calls of scan_directory_recursive in progress
    files_scanned,       \* AtomicU64 files_scanned
    bytes_scanned,       \* AtomicU64 bytes_scanned
    desk_total_files,    \* total_files of count_files_quick
    desk_emitted,        \* every event emitted to the window so far
    desk_failed,         \* paths whose read_dir or metadata call failed
    desk_result,         \* what the scan_directory command returned
    \* scan cache (src/cache.rs, src/main.rs)
    use_cache,           \* the use_cache argument of run_tui_mode
    cache_file,          \* the cache file of the requested path
    cache_src,           \* the tree that save wrote to that file, if any
    cache_pc,            \* position of the program
    cache_loaded,        \* loaded_from_cache
    cache_tree,          \* App::tree
    cache_queue,         \* queue of cache_entry_to_tree
    cache_visited,       \* visited of cache_entry_to_tree
    cache_inserted,      \* cache indices whose node was put in the tree
    \* treemap of the terminal UI (src/ui/treemap.rs, src/app.rs)
    map_area,            \* inner area of the treemap pane, in cells
    map_children,        \* sizes of the children of the treemap root
    map_pc,              \* "start" until the first frame was drawn
    treemap_rects,       \* App::treemap_rects
    mouse_pos,           \* App::mouse_pos
    hovered_node,        \* App::hovered_node
    clicked_node,        \* the node handle_treemap_click found
    \* JSON export (src/export/json.rs)
    exp_tree,            \* the tree handed to export_json
    exp_pc,              \* "start", "written", "parsed", "rewritten"
    exp_out,             \* what export_json wrote
    exp_parsed,          \* the value parsed from it
    exp_again            \* what serializing that value wrote

scanVars == <<kind, root_state, entries, lines, exit_status, pc, result, wk, taken, processed,
              files_found, bytes_processed, last_progress_count, interrupted,
              cancel_requested, tree, path_to_node, sorted_entries, bi,
              total_size, total_files, nodes_sent, emitted, nrecv, rx_alive>>

uiVars == <<ui_tree, scan_state, has_receiver, toggles>>

dupVars == <<dup_files, dup_config, dup_pc, dup_i, dup_total_files, size_groups,
             dup_todo, dup_cur, dup_j, files_processed, partial_hash_groups,
             full_hash_results, dup_emitted, cancel_flag, dup_cancel_at,
             dup_result>>

deskVars == <<desk_root, desk_top, desk_sub, max_depth, desk_flag, desk_pc,
              desk_stack, files_scanned, bytes_scanned, desk_total_files,
              desk_emitted, desk_failed, desk_result>>

cacheVars == <<use_cache, cache_file, cache_src, cache_pc, cache_loaded,
               cache_tree, cache_queue, cache_visited, cache_inserted>>

mapVars == <<map_area, map_children, map_pc, treemap_rects, mouse_pos,
             hovered_node, clicked_node>>

exportVars == <<exp_tree, exp_pc, exp_out, exp_parsed, exp_again>>

viewVars == <<mapVars, exportVars>>

otherVars == <<deskVars, cacheVars, viewVars>>

vars == <<scanVars, uiVars, dupVars, otherVars>>

None == [some |-> FALSE, tree |-> FileTreeNew]
Some(t) == [some |-> TRUE, tree |-> t]

\* App::new: no tree, no scan
UiIdle ==
    /\ ui_tree = None
    /\ scan_state = "Idle"
    /\ has_receiver = FALSE
    /\ toggles = 0

IdleWorker == [pc |-> "idle", idx |-> 0, count |-> 0, bytes |-> 0]

EmptyMap == [p \in {} |-> NoNode]

\* HashMap::insert
MapInsert(m, k, v) == [q \in DOMAIN m \cup {k} |-> IF q = k THEN v ELSE m[q]]

NoResult == [status |-> "none", error |-> "", groups |-> <<>>,
             total_duplicates |-> 0, wasted_space |-> 0]

\* find_duplicates entered, nothing done yet (lines 62-68, 73-74)
DupBegin ==
    /\ dup_pc = "start"
    /\ dup_i = 1
    /\ dup_total_files = 0
    /\ size_groups = <<>>
    /\ dup_todo = {}
    /\ dup_cur = 0
    /\ dup_j = 0
    /\ files_processed = 0
    /\ partial_hash_groups = <<>>
    /\ full_hash_results = <<>>
    /\ dup_emitted = <<>>
    /\ cancel_flag = FALSE
    /\ dup_cancel_at = 0
    /\ dup_result = NoResult

\* no duplicate scan was asked for
DupIdle ==
    /\ dup_files = <<>>
    /\ dup_config = [min_size |-> 1, include_hidden |-> FALSE]
    /\ DupBegin

NoDepth == -1

\* scan_directory entered, nothing done yet
DeskBegin ==
    /\ desk_pc = "validate"
    /\ desk_stack = <<>>
    /\ files_scanned = 0
    /\ bytes_scanned = 0
    /\ desk_total_files = 0
    /\ desk_emitted = <<>>
    /\ desk_failed = {}
    /\ desk_result = [status |-> "none"]

\* no desktop scan was asked for
DeskIdle ==
    /\ desk_root = "missing"
    /\ desk_top = <<>>
    /\ desk_sub = 0
    /\ max_depth = NoDepth
    /\ desk_flag = [some |-> FALSE, set |-> FALSE]
    /\ DeskBegin

\* no cache file under the name of the requested path
NoFile == [exists |-> FALSE]

\* run_tui_mode before line 280
CacheBegin ==
    /\ cache_pc = "start"
    /\ cache_loaded = FALSE
    /\ cache_tree = FileTreeNew
    /\ cache_queue = <<>>
    /\ cache_visited = {}
    /\ cache_inserted = <<>>

\* the cache is not used
CacheIdle ==
    /\ use_cache = FALSE
    /\ cache_file = NoFile
    /\ cache_src = FileTreeNew
    /\ CacheBegin

\* Option<(u16, u16)>::None
NoPos == [some |-> FALSE, x |-> 0, y |-> 0]

\* no frame drawn, no mouse event handled
MapBegin ==
    /\ map_pc = "start"
    /\ treemap_rects = <<>>
    /\ mouse_pos = NoPos
    /\ hovered_node = NoNode
    /\ clicked_node = NoNode

\* the treemap pane is not shown
MapIdle ==
    /\ map_area = [width |-> 0, height |-> 0]
    /\ map_children = <<>>
    /\ MapBegin

\* export_json not called yet
ExportBegin ==
    /\ exp_pc = "start"
    /\ exp_out = [kind |-> "none"]
    /\ exp_parsed = [kind |-> "none"]
    /\ exp_again = [kind |-> "none"]

\* no export was asked for
ExportIdle ==
    /\ exp_tree = FileTreeNew
    /\ ExportBegin

ViewIdle == MapIdle /\ ExportIdle

OtherIdle == DeskIdle /\ CacheIdle /\ ViewIdle

ScanStart ==
    /\ pc = "validate"
    /\ result = "none"
    /\ wk = [w \in Workers |-> IdleWorker]
    /\ taken = {}
    /\ processed = {}
    /\ files_found = 0
    /\ bytes_processed = 0
    /\ last_progress_count = 0
    /\ interrupted = FALSE
    /\ cancel_requested = FALSE
    /\ tree = FileTreeNew
    /\ path_to_node = EmptyMap
    /\ sorted_entries = <<>>
    /\ bi = 1
    /\ total_size = 0
    /\ total_files = 0
    /\ nodes_sent = 0
    /\ emitted = <<>>
    /\ nrecv = 0
    /\ rx_alive = TRUE

Init ==
    /\ \/ /\ kind = "local"
          /\ \/ root_state = "dir" /\ entries \in LocalInputs
             \/ root_state \in {"file", "missing"} /\ entries = <<>>
          /\ lines = <<>>
          /\ exit_status = 0
       \/ /\ kind = "remote"
          /\ root_state = "dir"
          /\ entries = <<>>
          /\ lines \in RemoteInputs
          /\ exit_status \in {0, 255}
    /\ ScanStart
    /\ UiIdle
    /\ DupIdle
    /\ OtherIdle

\* ------------------------------------------------------------------------
\* Progress channel: std::sync::mpsc::sync_channel(QueueCap)
\* ------------------------------------------------------------------------
QueueLen == Len(emitted) - nrecv

\* SyncSender::send returns at once when there is room or when the receiver
\* is gone (with an error the scanners ignore); otherwise it blocks
CanSend == ~rx_alive \/ QueueLen < QueueCap

\* the channel after send(ev)
Sent(ev) == IF rx_alive THEN Append(emitted, ev) ELSE emitted

Started == [type |-> "Started"]
Scanning(n) == [type |-> "Scanning", files_found |-> n]
ErrorEvent(p) == [type |-> "Error", path |-> p]
NodeDiscovered(node, parent_path) ==
    [type |-> "NodeDiscovered", node |-> node, parent_path |-> parent_path]
Completed(tf, ts, t) ==
    [type |-> "Completed", total_files |-> tf, total_size |-> ts, tree |-> t]

\* ------------------------------------------------------------------------
\* Local scanner: Scanner::scan (src/scanner/walker.rs)
\* ------------------------------------------------------------------------
scanLocals == <<wk, taken, processed, files_found, bytes_processed,
                last_progress_count, tree, path_to_node, sorted_entries, bi,
                total_size, total_files, nodes_sent>>
inputVars == <<kind, root_state, entries, lines, exit_status>>

\* a scan that validates the root and starts the walk without announcing it
ScanValidate_NoStarted ==
    /\ kind = "local"
    /\ pc = "validate"
    /\ IF root_state = "missing"
       THEN result' = "PathNotFound" /\ pc' = "done"
       ELSE IF root_state # "dir"
       THEN result' = "NotADirectory" /\ pc' = "done"
       ELSE pc' = "parallel" /\ UNCHANGED result
    /\ UNCHANGED <<uiVars, dupVars, otherVars, inputVars, scanLocals, interrupted, cancel_requested,
                   emitted, nrecv, rx_alive>>

\* lines 88-117: validate the root, then send Started
ScanValidate ==
    /\ kind = "local"
    /\ pc = "validate"
    /\ IF root_state = "missing"
       THEN /\ result' = "PathNotFound"
            /\ pc' = "done"
            /\ UNCHANGED emitted
       ELSE IF root_state # "dir"
       THEN /\ result' = "NotADirectory"
            /\ pc' = "done"
            /\ UNCHANGED emitted
       ELSE /\ CanSend
            /\ emitted' = Sent(Started)
            /\ pc' = "parallel"
            /\ UNCHANGED result
    /\ UNCHANGED <<uiVars, dupVars, otherVars, inputVars, scanLocals, interrupted, cancel_requested,
                   nrecv, rx_alive>>

\* rayon splits the entry vector in two halves, one per worker thread; each
\* thread walks its half in order
HalfOf(w) ==
    LET mid == Len(entries) \div 2
    IN IF w = "w1" THEN 1..mid ELSE (mid + 1)..Len(entries)

\* the next entry of w's half, 0 when the half is done
NextEntry(w) ==
    LET rest == HalfOf(w) \ taken
    IN IF rest = {} THEN 0 ELSE CHOOSE i \in rest : \A j \in rest : i <= j

\* lines 145-175: a worker takes an entry, checks `interrupted`, stats the
\* entry and bumps the shared counters
WorkerTake(w) ==
    /\ kind = "local"
    /\ pc = "parallel"
    /\ wk[w].pc = "idle"
    /\ NextEntry(w) # 0
    /\ LET i == NextEntry(w)
       IN
        /\ taken' = taken \cup {i}
        /\ IF interrupted
           THEN UNCHANGED <<wk, files_found, bytes_processed>>
           ELSE IF entries[i].ok
           THEN /\ files_found' = files_found + 1
                /\ bytes_processed' = bytes_processed + entries[i].size
                /\ wk' = [wk EXCEPT ![w] =
                            [pc |-> "throttle", idx |-> i,
                             count |-> files_found + 1,
                             bytes |-> bytes_processed + entries[i].size]]
           ELSE /\ wk' = [wk EXCEPT ![w] =
                            [pc |-> "error", idx |-> i, count |-> 0, bytes |-> 0]]
                /\ UNCHANGED <<files_found, bytes_processed>>
    /\ UNCHANGED <<uiVars, dupVars, otherVars, inputVars, pc, result, processed, last_progress_count,
                   interrupted, cancel_requested, tree, path_to_node,
                   sorted_entries, bi, total_size, total_files, nodes_sent,
                   emitted, nrecv, rx_alive>>

\* lines 178-191: under the mutex, decide whether to report; `elapsed` says
\* whether 50 ms have passed since the last report
WorkerThrottle(w) ==
    /\ wk[w].pc = "throttle"
    /\ \E elapsed \in BOOLEAN :
        LET should_send ==
                \/ wk[w].count < last_progress_count  \* the u64 difference wraps
                \/ wk[w].count - last_progress_count >= ScanStride
                \/ elapsed
        IN /\ last_progress_count' =
                 IF should_send THEN wk[w].count ELSE last_progress_count
           /\ IF should_send
              THEN /\ wk' = [wk EXCEPT ![w].pc = "send"]
                   /\ UNCHANGED processed
              ELSE /\ wk' = [wk EXCEPT ![w] = IdleWorker]
                   /\ processed' = processed \cup {wk[w].idx}
    /\ UNCHANGED <<uiVars, dupVars, otherVars, inputVars, pc, result, taken, files_found, bytes_processed,
                   interrupted, cancel_requested, tree, path_to_node,
                   sorted_entries, bi, total_size, total_files, nodes_sent,
                   emitted, nrecv, rx_alive>>

\* lines 193-202: send the Scanning event and yield Some(..)
WorkerSend(w) ==
    /\ wk[w].pc = "send"
    /\ CanSend
    /\ emitted' = Sent(Scanning(wk[w].count))
    /\ processed' = processed \cup {wk[w].idx}
    /\ wk' = [wk EXCEPT ![w] = IdleWorker]
    /\ UNCHANGED <<uiVars, dupVars, otherVars, inputVars, pc, result, taken, files_found, bytes_processed,
                   last_progress_count, interrupted, cancel_requested, tree,
                   path_to_node, sorted_entries, bi, total_size, total_files,
                   nodes_sent, nrecv, rx_alive>>

\* lines 204-213: a walkdir error is reported and the entry yields None
WorkerError(w) ==
    /\ wk[w].pc = "error"
    /\ CanSend
    /\ emitted' = Sent(ErrorEvent(entries[wk[w].idx].path))
    /\ wk' = [wk EXCEPT ![w] = IdleWorker]
    /\ UNCHANGED <<uiVars, dupVars, otherVars, inputVars, pc, result, taken, processed, files_found,
                   bytes_processed, last_progress_count, interrupted,
                   cancel_requested, tree, path_to_node, sorted_entries, bi,
                   total_size, total_files, nodes_sent, nrecv, rx_alive>>

RECURSIVE IndicesAtDepth(_, _, _)
\* the processed entries of depth d, in the order collect() kept them
IndicesAtDepth(done, i, d) ==
    IF i > Len(entries) THEN <<>>
    ELSE (IF i \in done /\ Depth(entries[i].path) = d THEN <<i>> ELSE <<>>)
         \o IndicesAtDepth(done, i + 1, d)

RECURSIVE SortByDepth(_, _, _)
\* sort_by(depth): a stable sort by component count
SortByDepth(done, d, maxd) ==
    IF d > maxd THEN <<>>
    ELSE IndicesAtDepth(done, 1, d) \o SortByDepth(done, d + 1, maxd)

MaxDepth == 2

\* collect() that returns as soon as every entry was handed out, without
\* waiting for the workers still busy with their last entry
WorkersJoined_NoJoin == taken = 1..Len(entries)

\* line 216: collect() returns once every entry was handed out and every
\* worker has finished the entry in its hands
WorkersJoined ==
    /\ taken = 1..Len(entries)
    /\ \A w \in Workers : wk[w].pc = "idle"

\* lines 216-245: collect() joins the workers; check `interrupted`, create the
\* tree, send the root node, sort the processed entries
ScanBeginBuild ==
    /\ kind = "local"
    /\ pc = "parallel"
    /\ WorkersJoined
    /\ IF interrupted
       THEN /\ result' = "Interrupted"
            /\ pc' = "done"
            /\ UNCHANGED <<tree, path_to_node, sorted_entries, emitted>>
       ELSE /\ CanSend
            /\ tree' = with_root(<<>>)
            /\ path_to_node' = MapInsert(EmptyMap, <<>>, 1)
            /\ emitted' = Sent(NodeDiscovered(FileNodeNew(<<>>, TRUE), <<>>))
            /\ sorted_entries' = SortByDepth(processed, 0, MaxDepth)
            /\ pc' = "build"
            /\ UNCHANGED result
    /\ UNCHANGED <<uiVars, dupVars, otherVars, inputVars, wk, taken, processed, files_found,
                   bytes_processed, last_progress_count, interrupted,
                   cancel_requested, bi, total_size, total_files, nodes_sent,
                   nrecv, rx_alive>>

\* a throttle that stops the opening burst one node early
NodeSent_ShortBurst(n, burst, stride) == n % stride = 0 \/ n < burst - 1

\* `nodes_sent % 50 == 0 || nodes_sent < 100`, for a burst and a stride
NodeSent(n, burst, stride) == n % stride = 0 \/ n < burst

\* the same with the scaled burst and stride
NodeEmitted(n) == NodeSent(n, NodeBurst, NodeStride)

\* lines 251-293: one iteration of the build loop
BuildStep(burst, stride) ==
    /\ bi <= Len(sorted_entries)
    /\ LET e == entries[sorted_entries[bi]]
           parent_path == IF PathParent(e.path) = NoPath THEN <<>>
                          ELSE PathParent(e.path)
       IN IF e.path = <<>> \/ parent_path \notin DOMAIN path_to_node
          THEN UNCHANGED <<tree, path_to_node, total_size, total_files,
                           nodes_sent, emitted>>
          ELSE LET node == [FileNodeNew(e.path, e.is_dir) EXCEPT !.size = e.size]
               IN /\ nodes_sent' = nodes_sent + 1
                  /\ IF NodeSent(nodes_sent + 1, burst, stride)
                     THEN /\ CanSend
                          /\ emitted' = Sent(NodeDiscovered(node, parent_path))
                     ELSE UNCHANGED emitted
                  /\ tree' = add_child(tree, path_to_node[parent_path], node)
                  /\ path_to_node' = MapInsert(path_to_node, e.path, NewNodeId(tree))
                  /\ total_size' = IF e.is_dir THEN total_size ELSE total_size + e.size
                  /\ total_files' = IF e.is_dir THEN total_files ELSE total_files + 1
    /\ bi' = bi + 1
    /\ UNCHANGED <<uiVars, dupVars, otherVars, inputVars, pc, result, wk, taken, processed, files_found,
                   bytes_processed, last_progress_count, interrupted,
                   cancel_requested, sorted_entries, nrecv, rx_alive>>

\* the build loop with the scaled throttle
ScanBuildStep ==
    /\ kind = "local"
    /\ pc = "build"
    /\ BuildStep(NodeBurst, NodeStride)

\* lines 296-306: aggregate, send Completed, return the tree
ScanFinish ==
    /\ kind = "local"
    /\ pc = "build"
    /\ bi > Len(sorted_entries)
    /\ CanSend
    /\ tree' = calculate_sizes(tree)
    /\ emitted' = Sent(Completed(total_files, total_size, CloneTree(tree')))
    /\ result' = "Ok"
    /\ pc' = "done"
    /\ UNCHANGED <<uiVars, dupVars, otherVars, inputVars, wk, taken, processed, files_found,
                   bytes_processed, last_progress_count, interrupted,
                   cancel_requested, path_to_node, sorted_entries, bi,
                   total_size, total_files, nodes_sent, nrecv, rx_alive>>

\* ------------------------------------------------------------------------
\* Remote scanner, listing mode: RemoteScanner::scan, scan_with_find
\* (src/remote.rs)
\* ------------------------------------------------------------------------
\* lines 127-129: send Started
RemoteStart ==
    /\ kind = "remote"
    /\ pc = "validate"
    /\ CanSend
    /\ emitted' = Sent(Started)
    /\ pc' = "probe"
    /\ UNCHANGED <<uiVars, dupVars, otherVars, inputVars, result, scanLocals, interrupted, cancel_requested,
                   nrecv, rx_alive>>

\* lines 132-200: the probe for a remote data-x and the spawn of the listing
\* command; either may fail, which ends the scan with an error
RemoteProbe ==
    /\ kind = "remote"
    /\ pc = "probe"
    /\ \E ok \in BOOLEAN :
        IF ok THEN pc' = "lines" /\ UNCHANGED result
        ELSE pc' = "done" /\ result' = "Err"
    /\ UNCHANGED <<uiVars, dupVars, otherVars, inputVars, scanLocals, interrupted, cancel_requested,
                   emitted, nrecv, rx_alive>>

\* lines 208-261: one line of the listing
RemoteLine ==
    /\ kind = "remote"
    /\ pc = "lines"
    /\ bi <= Len(lines)
    /\ LET line == lines[bi]
           is_dir == line.type = "d"
       IN IF line.fields < 3
          THEN UNCHANGED <<tree, path_to_node, files_found, total_size, emitted>>
          ELSE /\ IF tree.root = NoNode
                  THEN /\ tree' = [with_root(line.path) EXCEPT
                                      !.arena[1].size = line.size]
                       /\ path_to_node' = MapInsert(path_to_node, line.path, 1)
                  ELSE IF PathParent(line.path) \in DOMAIN path_to_node
                  THEN /\ tree' = add_child(tree,
                                      path_to_node[PathParent(line.path)],
                                      [FileNodeNew(line.path, is_dir) EXCEPT
                                          !.size = line.size])
                       /\ path_to_node' =
                              MapInsert(path_to_node, line.path, NewNodeId(tree))
                  ELSE UNCHANGED <<tree, path_to_node>>
               /\ files_found' = files_found + 1
               /\ total_size' = total_size + line.size
               /\ IF (files_found + 1) % ListingStride = 0
                  THEN /\ CanSend
                       /\ emitted' = Sent(Scanning(files_found + 1))
                  ELSE UNCHANGED emitted
    /\ bi' = bi + 1
    /\ UNCHANGED <<uiVars, dupVars, otherVars, inputVars, pc, result, wk, taken, processed,
                   bytes_processed, last_progress_count, interrupted,
                   cancel_requested, sorted_entries, total_files, nodes_sent,
                   nrecv, rx_alive>>

\* lines 263-275: wait for the child (the exit status wait() returns is not
\* read), aggregate, send Completed
RemoteFinish ==
    /\ kind = "remote"
    /\ pc = "lines"
    /\ bi > Len(lines)
    /\ \E waited \in BOOLEAN :
        IF waited
        THEN /\ CanSend
             /\ tree' = calculate_sizes(tree)
             /\ emitted' = Sent(Completed(files_found, total_size, CloneTree(tree')))
             /\ result' = "Ok"
        ELSE /\ result' = "Err"
             /\ UNCHANGED <<tree, emitted>>
    /\ pc' = "done"
    /\ UNCHANGED <<uiVars, dupVars, otherVars, inputVars, wk, taken, processed, files_found,
                   bytes_processed, last_progress_count, interrupted,
                   cancel_requested, path_to_node, sorted_entries, bi,
                   total_size, total_files, nodes_sent, nrecv, rx_alive>>

\* ------------------------------------------------------------------------
\* The receiving side and the user
\* ------------------------------------------------------------------------
\* Receiver::try_recv takes the oldest queued event
TryRecv ==
    /\ rx_alive
    /\ QueueLen > 0
    /\ nrecv' = nrecv + 1
    /\ UNCHANGED <<uiVars, dupVars, otherVars, inputVars, pc, result, scanLocals, interrupted,
                   cancel_requested, emitted, rx_alive>>

\* the Receiver is dropped while the scan runs; the queue is emptied with it
DropReceiver ==
    /\ rx_alive
    /\ pc # "done"
    /\ rx_alive' = FALSE
    /\ nrecv' = Len(emitted)
    /\ UNCHANGED <<uiVars, dupVars, otherVars, inputVars, pc, result, scanLocals, interrupted,
                   cancel_requested, emitted>>

\* the user asks to cancel a running local scan
RequestCancel ==
    /\ kind = "local"
    /\ pc \in {"parallel", "build"}
    /\ \E i \in 1..Len(emitted) : emitted[i].type = "Scanning"
    /\ ~cancel_requested
    /\ cancel_requested' = TRUE
    /\ UNCHANGED <<uiVars, dupVars, otherVars, inputVars, pc, result, scanLocals, interrupted, emitted,
                   nrecv, rx_alive>>

Next ==
    \/ ScanValidate
    \/ \E w \in Workers : WorkerTake(w)
    \/ \E w \in Workers : WorkerThrottle(w)
    \/ \E w \in Workers : WorkerSend(w)
    \/ \E w \in Workers : WorkerError(w)
    \/ ScanBeginBuild
    \/ ScanBuildStep
    \/ ScanFinish
    \/ RemoteStart
    \/ RemoteProbe
    \/ RemoteLine
    \/ RemoteFinish
    \/ TryRecv
    \/ DropReceiver
    \/ RequestCancel

Spec == Init /\ [][Next]_vars

\* Σ over the children of d of what each child reports (excluded counts 0)
RECURSIVE SumSeq(_, _, _, _)
SumSeq(arena, ids, i, field) ==
    IF i > Len(ids) THEN 0
    ELSE (IF arena[ids[i]].excluded THEN 0
          ELSE IF field = "size" THEN arena[ids[i]].size
          ELSE arena[ids[i]].file_count)
         + SumSeq(arena, ids, i + 1, field)

ChildSizeSum(arena, d) == SumSeq(arena, get_children(arena, d), 1, "size")
ChildCountSum(arena, d) == SumSeq(arena, get_children(arena, d), 1, "count")

\* the aggregation invariant of a tree: every non-excluded directory carries
\* the sums over its children
Aggregated(t) ==
    \A d \in 1..Len(t.arena) :
        (t.arena[d].is_dir /\ ~t.arena[d].excluded) =>
            /\ t.arena[d].size = ChildSizeSum(t.arena, d)
            /\ t.arena[d].file_count = ChildCountSum(t.arena, d)


\* ------------------------------------------------------------------------
\* Terminal UI: App (src/app.rs), fed by a local scan
\* ------------------------------------------------------------------------
\* Exclude commands the user gives during one run
MaxToggles == 1

\* App::start_scan: the UI holds the receiver of a scan that is about to run
InitUI ==
    /\ kind = "local"
    /\ \/ root_state = "dir" /\ entries \in LocalInputs
       \/ root_state \in {"file", "missing"} /\ entries = <<>>
    /\ lines = <<>>
    /\ exit_status = 0
    /\ ScanStart
    /\ ui_tree = None
    /\ scan_state = "Scanning"
    /\ has_receiver = TRUE
    /\ toggles = 0
    /\ DupIdle
    /\ OtherIdle

\* App::handle_node_discovered(node, parent_path)
handle_node_discovered(ut, node, parent_path) ==
    IF ~ut.some
    THEN Some([with_root(node.path) EXCEPT
                  !.arena[1].size = node.size,
                  !.arena[1].file_count = node.file_count])
    ELSE LET parent_id == find_by_path(ut.tree, parent_path)
         IN IF parent_id # NoNode
            THEN Some(add_size_to_ancestors(add_child(ut.tree, parent_id, node),
                                            parent_id, node.size, node.file_count))
            ELSE ut

\* App::update. The handler drains the queue and then handles what it took;
\* here it takes one event per step, since the queue may hold any prefix of
\* what the scanner sends when update() runs. With the queue empty and the
\* sender dropped, try_recv reports the disconnection (lines 265-268, 358-364)
UiUpdate ==
    /\ has_receiver
    /\ IF QueueLen > 0
       THEN LET ev == emitted[nrecv + 1]
            IN /\ nrecv' = nrecv + 1
               /\ IF ev.type = "NodeDiscovered"
                  THEN /\ ui_tree' = handle_node_discovered(ui_tree, ev.node,
                                                            ev.parent_path)
                       /\ UNCHANGED <<scan_state, has_receiver, rx_alive>>
                  ELSE IF ev.type = "Completed"
                  THEN /\ ui_tree' = Some(ev.tree)
                       /\ scan_state' = "Complete"
                       /\ has_receiver' = FALSE
                       /\ rx_alive' = FALSE
                  ELSE IF ev.type = "Started"
                  THEN /\ scan_state' = "Scanning"
                       /\ UNCHANGED <<ui_tree, has_receiver, rx_alive>>
                  ELSE UNCHANGED <<ui_tree, scan_state, has_receiver, rx_alive>>
       ELSE /\ pc = "done"
            /\ has_receiver' = FALSE
            /\ rx_alive' = FALSE
            /\ scan_state' = IF scan_state = "Scanning"
                             THEN "Error: Scanner disconnected"
                             ELSE scan_state
            /\ UNCHANGED <<ui_tree, nrecv>>
    /\ UNCHANGED <<dupVars, otherVars, inputVars, pc, result, scanLocals, interrupted,
                   cancel_requested, emitted, toggles>>

\* App::exclude_selected, with the selection on node id of the tree
exclude_selected(t, node_id) ==
    calculate_sizes([t EXCEPT !.arena[node_id].excluded = ~@])

\* Command::Exclude on a node the user has navigated to
UiExclude ==
    /\ ui_tree.some
    /\ toggles < MaxToggles
    /\ \E node_id \in 1..Len(ui_tree.tree.arena) :
        ui_tree' = Some(exclude_selected(ui_tree.tree, node_id))
    /\ toggles' = toggles + 1
    /\ UNCHANGED <<dupVars, otherVars, scanVars, scan_state, has_receiver>>

\* Command::Rescan (lines 492-501) over App::start_scan (lines 208-226),
\* given once the previous scan has completed: a new channel, a new scanner
\* thread on the same root; App::tree is not touched
UiRescan ==
    /\ scan_state = "Complete"
    /\ scan_state' = "Scanning"
    /\ has_receiver' = TRUE
    /\ pc' = "validate"
    /\ result' = "none"
    /\ wk' = [w \in Workers |-> IdleWorker]
    /\ taken' = {}
    /\ processed' = {}
    /\ files_found' = 0
    /\ bytes_processed' = 0
    /\ last_progress_count' = 0
    /\ interrupted' = FALSE
    /\ cancel_requested' = FALSE
    /\ tree' = FileTreeNew
    /\ path_to_node' = EmptyMap
    /\ sorted_entries' = <<>>
    /\ bi' = 1
    /\ total_size' = 0
    /\ total_files' = 0
    /\ nodes_sent' = 0
    /\ emitted' = <<>>
    /\ nrecv' = 0
    /\ rx_alive' = TRUE
    /\ UNCHANGED <<dupVars, otherVars, inputVars, ui_tree, toggles>>

NextUI ==
    \/ UiRescan
    \/ ScanValidate
    \/ \E w \in Workers : WorkerTake(w)
    \/ \E w \in Workers : WorkerThrottle(w)
    \/ \E w \in Workers : WorkerSend(w)
    \/ \E w \in Workers : WorkerError(w)
    \/ ScanBeginBuild
    \/ ScanBuildStep
    \/ ScanFinish
    \/ UiUpdate
    \/ UiExclude

SpecUI == InitUI /\ [][NextUI]_vars

\* ------------------------------------------------------------------------
\* GUI: DataXApp (src/gui/app.rs), fed by a local scan
\* ------------------------------------------------------------------------
\* DataXApp::poll_progress, one received event per step as in UiUpdate.
\* Events other than Scanning and Completed fall to `Ok(_) => {}`; Scanning
\* changes the progress display only. On Disconnected the receiver is
\* dropped and nothing else is assigned (lines 258-261)
GuiPoll ==
    /\ has_receiver
    /\ IF QueueLen > 0
       THEN LET ev == emitted[nrecv + 1]
            IN /\ nrecv' = nrecv + 1
               /\ IF ev.type = "Completed"
                  THEN /\ ui_tree' = Some(ev.tree)
                       /\ scan_state' = "Complete"
                       /\ has_receiver' = FALSE
                       /\ rx_alive' = FALSE
                  ELSE UNCHANGED <<ui_tree, scan_state, has_receiver, rx_alive>>
       ELSE /\ pc = "done"
            /\ has_receiver' = FALSE
            /\ rx_alive' = FALSE
            /\ UNCHANGED <<ui_tree, scan_state, nrecv>>
    /\ UNCHANGED <<dupVars, otherVars, inputVars, pc, result, scanLocals, interrupted,
                   cancel_requested, emitted, toggles>>

NextGui ==
    \/ ScanValidate
    \/ \E w \in Workers : WorkerTake(w)
    \/ \E w \in Workers : WorkerThrottle(w)
    \/ \E w \in Workers : WorkerSend(w)
    \/ \E w \in Workers : WorkerError(w)
    \/ ScanBeginBuild
    \/ ScanBuildStep
    \/ ScanFinish
    \/ GuiPoll

\* DataXApp::start_scan leaves the GUI in the state App::start_scan leaves
\* the terminal UI in
SpecGui == InitUI /\ [][NextGui]_vars

\* update() calls poll_progress on every frame
SpecGuiLive == SpecGui /\ WF_vars(GuiPoll)

\* ------------------------------------------------------------------------
\* Duplicate detector: find_duplicates (src-tauri/src/duplicates/detector.rs)
\* ------------------------------------------------------------------------
\* what a file may hold: byte strings that differ in length, that share
\* length and first byte, and that share length only
Contents == {<<0>>, <<0, 0>>, <<0, 1>>, <<1, 1>>}

\* values of min_size
MinSizes == {1, 2}

\* modification times: an older and a newer one
Modified == {0, 1}

\* a regular file of the walk: what it holds and whether a component of its
\* path starts with '.'
DupFileSet == [content : Contents, hidden : BOOLEAN]

DupInputs == SeqsUpTo(DupFileSet, MaxDupFiles)

\* metadata.len()
DupSize(f) == Len(dup_files[f].content)

\* SHA-256 of a byte string, taken as free of collisions
Sha256(bytes) == [sha256 |-> bytes]

\* hasher::partial_hash: digest of the first PartialHashSize bytes
partial_hash(f) ==
    LET c == dup_files[f].content
    IN Sha256(SubSeq(c, 1, IF Len(c) < PartialHashSize THEN Len(c)
                           ELSE PartialHashSize))

\* hasher::full_hash: digest of the whole file
full_hash(f) == Sha256(dup_files[f].content)

RECURSIVE FilterEntry(_)
\* filter_entry of lines 79-89 over the files 1..n, in walk order
FilterEntry(n) ==
    IF n = 0 THEN <<>>
    ELSE IF ~dup_config.include_hidden /\ dup_files[n].hidden
         THEN FilterEntry(n - 1)
         ELSE Append(FilterEntry(n - 1), n)

DupWalk == FilterEntry(Len(dup_files))

\* emit_progress(app, phase, processed, total, _)
DupProgress(phase, done, total) ==
    [phase |-> phase, files_processed |-> done, total_files |-> total]

\* a push that stores the value twice
PushInto_Twice(m, k, v) ==
    IF k \in DOMAIN m THEN [m EXCEPT ![k] = Append(Append(@, v), v)]
    ELSE [q \in DOMAIN m \cup {k} |-> IF q = k THEN <<v, v>> ELSE m[q]]

\* map.entry(k).or_default().push(v)
PushInto(m, k, v) ==
    IF k \in DOMAIN m THEN [m EXCEPT ![k] = Append(@, v)]
    ELSE [q \in DOMAIN m \cup {k} |-> IF q = k THEN <<v>> ELSE m[q]]

\* a retain that keeps every bucket
RetainGroups_KeepAll(m) == m

\* map.retain(|_, files| files.len() > 1)
RetainGroups(m) == [k \in {q \in DOMAIN m : Len(m[q]) > 1} |-> m[k]]

RECURSIVE SumLens(_, _)
\* map.values().map(|v| v.len()).sum()
SumLens(m, keys) ==
    IF keys = {} THEN 0
    ELSE LET k == CHOOSE q \in keys : TRUE
         IN Len(m[k]) + SumLens(m, keys \ {k})

DupErr(msg) == [NoResult EXCEPT !.status = "err", !.error = msg]

dupInput == <<dup_files, dup_config>>

InitDup ==
    /\ kind = "local"
    /\ root_state = "missing"
    /\ entries = <<>>
    /\ lines = <<>>
    /\ exit_status = 0
    /\ ScanStart
    /\ UiIdle
    /\ OtherIdle
    /\ dup_files \in DupInputs
    /\ dup_config \in [min_size : MinSizes, include_hidden : BOOLEAN]
    /\ DupBegin

\* line 71: the first progress event
DupStart ==
    /\ dup_pc = "start"
    /\ dup_pc' = "enumerate"
    /\ dup_emitted' = Append(dup_emitted, DupProgress("Scanning files...", 0, 0))
    /\ UNCHANGED <<scanVars, uiVars, otherVars, dupInput, dup_i, dup_total_files,
                   size_groups, dup_todo, dup_cur, dup_j, files_processed,
                   partial_hash_groups, full_hash_results, cancel_flag,
                   dup_cancel_at, dup_result>>

\* lines 76-134: one iteration of the enumeration loop
DupWalkEntry ==
    /\ dup_pc = "enumerate"
    /\ dup_i <= Len(DupWalk)
    /\ IF cancel_flag
       THEN /\ dup_result' = DupErr("Scan cancelled")
            /\ dup_pc' = "done"
            /\ UNCHANGED <<dup_i, dup_total_files, size_groups, dup_emitted>>
       ELSE LET f == DupWalk[dup_i]
            IN /\ dup_i' = dup_i + 1
               /\ IF DupSize(f) < dup_config.min_size
                  THEN UNCHANGED <<dup_total_files, size_groups, dup_emitted>>
                  ELSE /\ dup_total_files' = dup_total_files + 1
                       /\ size_groups' = PushInto(size_groups, DupSize(f), f)
                       /\ dup_emitted' =
                            IF dup_total_files' % DupScanStride = 0
                            THEN Append(dup_emitted,
                                        DupProgress("Scanning files...",
                                                    dup_total_files',
                                                    dup_total_files'))
                            ELSE dup_emitted
               /\ UNCHANGED <<dup_pc, dup_result>>
    /\ UNCHANGED <<scanVars, uiVars, otherVars, dupInput, dup_todo, dup_cur, dup_j,
                   files_processed, partial_hash_groups, full_hash_results,
                   cancel_flag, dup_cancel_at>>

\* lines 137-150: the walk is over; keep the size groups of two or more
DupSizeGroupsDone ==
    /\ dup_pc = "enumerate"
    /\ dup_i > Len(DupWalk)
    /\ LET kept == RetainGroups(size_groups)
       IN /\ size_groups' = kept
          /\ dup_emitted' = Append(dup_emitted,
                DupProgress("Computing partial hashes...", 0,
                            SumLens(kept, DOMAIN kept)))
          /\ dup_todo' = DOMAIN kept
    /\ files_processed' = 0
    /\ partial_hash_groups' = <<>>
    /\ dup_pc' = "partial"
    /\ UNCHANGED <<scanVars, uiVars, otherVars, dupInput, dup_i, dup_total_files, dup_cur,
                   dup_j, full_hash_results, cancel_flag, dup_cancel_at,
                   dup_result>>

\* lines 152-155: the phase 2 loop moves to a size group, in the map's order
DupPartialGroup ==
    /\ dup_pc = "partial"
    /\ dup_cur = 0
    /\ dup_todo # {}
    /\ IF cancel_flag
       THEN /\ dup_result' = DupErr("Scan cancelled")
            /\ dup_pc' = "done"
            /\ UNCHANGED <<dup_todo, dup_cur, dup_j>>
       ELSE /\ \E size \in dup_todo :
                 /\ dup_cur' = size
                 /\ dup_todo' = dup_todo \ {size}
            /\ dup_j' = 1
            /\ UNCHANGED <<dup_pc, dup_result>>
    /\ UNCHANGED <<scanVars, uiVars, otherVars, dupInput, dup_i, dup_total_files,
                   size_groups, files_processed, partial_hash_groups,
                   full_hash_results, dup_emitted, cancel_flag, dup_cancel_at>>

\* lines 157-179: one file of the current size group
DupPartialFile ==
    /\ dup_pc = "partial"
    /\ dup_cur # 0
    /\ LET f == size_groups[dup_cur][dup_j]
           count == files_processed
       IN /\ files_processed' = count + 1
          /\ dup_emitted' =
               IF count % DupHashStride = 0
               THEN Append(dup_emitted,
                           DupProgress("Computing partial hashes...", count,
                                       SumLens(size_groups, DOMAIN size_groups)))
               ELSE dup_emitted
          /\ \E ok \in BOOLEAN :
               partial_hash_groups' =
                 IF ok THEN PushInto(partial_hash_groups,
                                     <<dup_cur, partial_hash(f)>>, f)
                 ELSE partial_hash_groups
    /\ IF dup_j < Len(size_groups[dup_cur])
       THEN dup_j' = dup_j + 1 /\ dup_cur' = dup_cur
       ELSE dup_j' = 0 /\ dup_cur' = 0
    /\ UNCHANGED <<scanVars, uiVars, otherVars, dupInput, dup_pc, dup_i, dup_total_files,
                   size_groups, dup_todo, full_hash_results, cancel_flag,
                   dup_cancel_at, dup_result>>

\* lines 183-189: keep the prefix groups of two or more
DupPartialGroupsDone ==
    /\ dup_pc = "partial"
    /\ dup_cur = 0
    /\ dup_todo = {}
    /\ LET kept == RetainGroups(partial_hash_groups)
       IN /\ partial_hash_groups' = kept
          /\ dup_emitted' = Append(dup_emitted,
                DupProgress("Computing full hashes...", 0,
                            SumLens(kept, DOMAIN kept)))
          /\ dup_todo' = DOMAIN kept
    /\ files_processed' = 0
    /\ dup_pc' = "full"
    /\ UNCHANGED <<scanVars, uiVars, otherVars, dupInput, dup_i, dup_total_files,
                   size_groups, dup_cur, dup_j, full_hash_results, cancel_flag,
                   dup_cancel_at, dup_result>>

RECURSIVE HashFiles(_, _, _, _, _)
\* lines 199-222: the tuples of the files of a group that could be read,
\* each with the mtime fs::metadata reports for it
HashFiles(files, i, failed, mtimes, size) ==
    IF i > Len(files) THEN <<>>
    ELSE (IF i \in failed THEN <<>>
          ELSE <<[hash |-> full_hash(files[i]), size |-> size,
                  path |-> files[i], modified |-> mtimes[i]]>>)
         \o HashFiles(files, i + 1, failed, mtimes, size)

\* lines 192-224: a rayon task takes one prefix group
DupFullGroup ==
    /\ dup_pc = "full"
    /\ \E key \in dup_todo :
        /\ dup_todo' = dup_todo \ {key}
        /\ IF cancel_flag
           THEN UNCHANGED <<full_hash_results, files_processed>>
           ELSE LET files == partial_hash_groups[key]
                IN /\ \E failed \in SUBSET (1..Len(files)) :
                      \E mtimes \in [1..Len(files) -> Modified] :
                        full_hash_results' = full_hash_results
                            \o HashFiles(files, 1, failed, mtimes, key[1])
                   /\ files_processed' = files_processed + Len(files)
    /\ UNCHANGED <<scanVars, uiVars, otherVars, dupInput, dup_pc, dup_i, dup_total_files,
                   size_groups, dup_cur, dup_j, partial_hash_groups,
                   dup_emitted, cancel_flag, dup_cancel_at, dup_result>>

RECURSIVE GroupByHash(_, _)
\* lines 227-233: the first n tuples grouped by their full hash
GroupByHash(results, n) ==
    IF n = 0 THEN <<>>
    ELSE PushInto(GroupByHash(results, n - 1), results[n].hash,
                  [path |-> results[n].path, size |-> results[n].size,
                   modified |-> results[n].modified])

\* where a stable sort by modified puts x into the sorted s
InsertByModified(s, x) ==
    LET k == Cardinality({i \in 1..Len(s) : s[i].modified <= x.modified})
    IN SubSeq(s, 1, k) \o <<x>> \o SubSeq(s, k + 1, Len(s))

RECURSIVE SortByModified(_, _)
\* line 268: files.sort_by(modified) of the first n files
SortByModified(files, n) ==
    IF n = 0 THEN <<>>
    ELSE InsertByModified(SortByModified(files, n - 1), files[n])

\* lines 240-256: the DuplicateGroup of one full-hash bucket
MakeGroup(hash, files) ==
    [hash |-> hash, size |-> files[1].size,
     files |-> SortByModified(files, Len(files))]

\* size * (files.len() - 1)
Waste(g) == g.size * (Len(g.files) - 1)

RECURSIVE SumGroups(_, _, _)
SumGroups(groups, i, byBytes) ==
    IF i > Len(groups) THEN 0
    ELSE (IF byBytes THEN Waste(groups[i]) ELSE Len(groups[i].files) - 1)
         + SumGroups(groups, i + 1, byBytes)

\* the orders in which a stable sort by waste, largest first, can leave the
\* buckets of a HashMap
SortedOrders(m) ==
    {o \in [1..Cardinality(DOMAIN m) -> DOMAIN m] :
        /\ \A i, j \in DOMAIN o : i # j => o[i] # o[j]
        /\ \A i, j \in DOMAIN o :
             i < j => Waste(MakeGroup(o[i], m[o[i]]))
                        >= Waste(MakeGroup(o[j], m[o[j]]))}

\* lines 227-284: build the result, report "Complete", return Ok
DupBuildResult ==
    /\ dup_pc = "full"
    /\ dup_todo = {}
    /\ LET full_hash_groups ==
               RetainGroups(GroupByHash(full_hash_results, Len(full_hash_results)))
       IN \E o \in SortedOrders(full_hash_groups) :
            LET groups == [i \in DOMAIN o |-> MakeGroup(o[i], full_hash_groups[o[i]])]
            IN dup_result' = [status |-> "ok", error |-> "", groups |-> groups,
                              total_duplicates |-> SumGroups(groups, 1, FALSE),
                              wasted_space |-> SumGroups(groups, 1, TRUE)]
    /\ dup_emitted' = Append(dup_emitted,
                             DupProgress("Complete", dup_total_files, dup_total_files))
    /\ dup_pc' = "done"
    /\ UNCHANGED <<scanVars, uiVars, otherVars, dupInput, dup_i, dup_total_files,
                   size_groups, dup_todo, dup_cur, dup_j, files_processed,
                   partial_hash_groups, full_hash_results, cancel_flag,
                   dup_cancel_at>>

\* a file is still to be taken by the stage that is running
DupWorkLeft ==
    \/ dup_pc = "enumerate" /\ dup_i <= Len(DupWalk)
    \/ dup_pc = "partial" /\ (dup_cur # 0 \/ dup_todo # {})
    \/ dup_pc = "full" /\ dup_todo # {}

\* the caller stores true to cancel_flag while the scan is at work
DupCancel ==
    /\ DupWorkLeft
    /\ ~cancel_flag
    /\ cancel_flag' = TRUE
    /\ dup_cancel_at' = Len(dup_emitted)
    /\ UNCHANGED <<scanVars, uiVars, otherVars, dupInput, dup_pc, dup_i, dup_total_files,
                   size_groups, dup_todo, dup_cur, dup_j, files_processed,
                   partial_hash_groups, full_hash_results, dup_emitted,
                   dup_result>>

NextDup ==
    \/ DupStart
    \/ DupWalkEntry
    \/ DupSizeGroupsDone
    \/ DupPartialGroup
    \/ DupPartialFile
    \/ DupPartialGroupsDone
    \/ DupFullGroup
    \/ DupBuildResult
    \/ DupCancel

SpecDup == InitDup /\ [][NextDup]_vars

\* ------------------------------------------------------------------------
\* Desktop scanner: scan_directory (src-tauri/src/commands.rs) over
\* scan_directory_with_progress (src-tauri/src/scanner.rs)
\* ------------------------------------------------------------------------
\* what an entry under the root can be: a file, a readable directory, a
\* directory read_dir fails on, an entry whose metadata() fails
DeskKinds == {"file", "dir", "baddir", "badmeta"}

DeskKindOf(path) ==
    IF path = <<>> THEN desk_root
    ELSE IF Len(path) = 1 THEN desk_top[path[1]]
    ELSE "file"

\* fs::read_dir(path), entries that are Err dropped (line 138)
DeskReadDir(path) ==
    IF path = <<>> THEN [k \in 1..Len(desk_top) |-> <<k>>]
    ELSE [j \in 1..desk_sub |-> Append(path, j)]

RECURSIVE DeskWalkCount(_, _)
\* number of Ok entries WalkDir yields for the entries i.. of the root
DeskWalkCount(i, n) ==
    IF i > n THEN 0
    ELSE 1 + (IF desk_top[i] = "dir" THEN desk_sub ELSE 0) + DeskWalkCount(i + 1, n)

\* count_files_quick(path) on the scan root
count_files_quick ==
    1 + (IF desk_root = "dir" THEN DeskWalkCount(1, Len(desk_top)) ELSE 0)

RECURSIVE SumFileSizes(_, _)
\* sizes of the files entries[i..]
SumFileSizes(paths, i) ==
    IF i > Len(paths) THEN 0
    ELSE (IF DeskKindOf(paths[i]) = "file" THEN FileSizeOf(paths[i])
          ELSE IF DeskKindOf(paths[i]) = "dir"
          THEN SumFileSizes(DeskReadDir(paths[i]), 1)
          ELSE 0)
         + SumFileSizes(paths, i + 1)

\* estimate_dir_size(path)
estimate_dir_size(path) ==
    IF DeskKindOf(path) = "dir" THEN SumFileSizes(DeskReadDir(path), 1) ELSE 0

\* types::FileNode, without the fields no step reads (id, name, is_hidden,
\* extension)
DeskNode(path, size, is_dir, children, file_count) ==
    [path |-> path, size |-> size, is_dir |-> is_dir, children |-> children,
     file_count |-> file_count]

\* the comparator of lines 198-204: directories first, then larger first
SortsBefore(a, b) ==
    \/ a.is_dir /\ ~b.is_dir
    \/ a.is_dir = b.is_dir /\ a.size > b.size

InsertChild(sorted, x) ==
    LET k == Cardinality({i \in 1..Len(sorted) : ~SortsBefore(x, sorted[i])})
    IN SubSeq(sorted, 1, k) \o <<x>> \o SubSeq(sorted, k + 1, Len(sorted))

RECURSIVE SortChildren(_, _)
\* sorted_children.sort_by(..) of the first n children, a stable sort
SortChildren(children, n) ==
    IF n = 0 THEN <<>>
    ELSE InsertChild(SortChildren(children, n - 1), children[n])

RECURSIVE SumField(_, _, _)
\* children.iter().map(|c| c.size).sum() and the same for file_count
SumField(children, i, bySize) ==
    IF i > Len(children) THEN 0
    ELSE (IF bySize THEN children[i].size ELSE children[i].file_count)
         + SumField(children, i + 1, bySize)

RECURSIVE count_files(_)
RECURSIVE CountEach(_, _)
CountEach(children, i) ==
    IF i > Len(children) THEN 0
    ELSE count_files(children[i]) + CountEach(children, i + 1)

\* commands::count_files
count_files(node) ==
    IF node.is_dir THEN CountEach(node.children, 1) ELSE 1

\* Ok(ScanResult { root, total_files, total_size, .. }) of scan_directory
DeskOk(root) ==
    [status |-> "ok", root |-> root, total_files |-> count_files(root),
     total_size |-> root.size]

DeskErr(msg) == [status |-> "err", error |-> msg]

\* a call of scan_directory_recursive(path, depth, ..)
DeskFrame(path, depth) ==
    [path |-> path, depth |-> depth, entered |-> FALSE, entries |-> <<>>,
     idx |-> 1, children |-> <<>>]

deskInput == <<desk_root, desk_top, desk_sub, max_depth, desk_flag>>

InitDesk ==
    /\ kind = "local"
    /\ root_state = "missing"
    /\ entries = <<>>
    /\ lines = <<>>
    /\ exit_status = 0
    /\ ScanStart
    /\ UiIdle
    /\ DupIdle
    /\ \/ desk_root \in {"missing", "file", "baddir"} /\ desk_top = <<>> /\ desk_sub = 0
       \/ /\ desk_root = "dir"
          /\ desk_top \in SeqsUpTo(DeskKinds, DeskMaxTop)
          /\ desk_sub \in 0..DeskMaxSub
    /\ max_depth \in {NoDepth} \cup 0..DeskMaxDepth
    /\ desk_flag \in [some : BOOLEAN, set : {FALSE}]
    /\ DeskBegin
    /\ CacheIdle
    /\ ViewIdle

\* scan_directory_with_progress, lines 43-92: the checks of the root
DeskValidate ==
    /\ desk_pc = "validate"
    /\ IF desk_root = "missing"
       THEN /\ desk_result' = DeskErr("Path does not exist")
            /\ desk_pc' = "done"
            /\ UNCHANGED <<desk_stack, desk_total_files>>
       ELSE IF desk_root = "file"
       THEN /\ desk_result' = DeskOk(DeskNode(<<>>, 1, FALSE, <<>>, 1))
            /\ desk_pc' = "done"
            /\ UNCHANGED <<desk_stack, desk_total_files>>
       ELSE /\ desk_total_files' = count_files_quick
            /\ desk_stack' = <<DeskFrame(<<>>, 0)>>
            /\ desk_pc' = "scan"
            /\ UNCHANGED desk_result
    /\ UNCHANGED <<scanVars, uiVars, dupVars, cacheVars, viewVars, deskInput, files_scanned,
                   bytes_scanned, desk_emitted, desk_failed>>

\* what the caller of scan_directory_recursive does with its return value:
\* process_entry keeps an Ok as a child and drops an Err (.ok(), line 263);
\* the outermost call's value is the scan's
DeskReturn(rest, value) ==
    IF rest = <<>>
    THEN /\ desk_stack' = <<>>
         /\ desk_pc' = "done"
         /\ desk_result' = IF value.ok THEN DeskOk(value.node)
                           ELSE DeskErr(value.error)
    ELSE /\ desk_stack' =
              [rest EXCEPT ![Len(rest)].children =
                  IF value.ok THEN Append(@, value.node) ELSE @]
         /\ UNCHANGED <<desk_pc, desk_result>>

DeskTop == desk_stack[Len(desk_stack)]
DeskRest == SubSeq(desk_stack, 1, Len(desk_stack) - 1)

\* scan_directory_recursive, lines 104-153: the cancel check, the depth
\* check, read_dir
DeskEnter ==
    /\ desk_pc = "scan"
    /\ ~DeskTop.entered
    /\ LET f == DeskTop
       IN IF desk_flag.some /\ desk_flag.set
          THEN /\ DeskReturn(DeskRest, [ok |-> FALSE, error |-> "Scan cancelled"])
               /\ UNCHANGED desk_failed
          ELSE IF max_depth # NoDepth /\ f.depth >= max_depth
          THEN /\ DeskReturn(DeskRest,
                     [ok |-> TRUE,
                      node |-> DeskNode(f.path, estimate_dir_size(f.path), TRUE, <<>>, 0)])
               /\ UNCHANGED desk_failed
          ELSE IF DeskKindOf(f.path) = "baddir"
          THEN /\ DeskReturn(DeskRest,
                     [ok |-> TRUE, node |-> DeskNode(f.path, 0, TRUE, <<>>, 0)])
               /\ desk_failed' = desk_failed \cup {f.path}
          ELSE /\ desk_stack' = [desk_stack EXCEPT
                     ![Len(desk_stack)].entered = TRUE,
                     ![Len(desk_stack)].entries = DeskReadDir(f.path)]
               /\ UNCHANGED <<desk_pc, desk_result, desk_failed>>
    /\ UNCHANGED <<scanVars, uiVars, dupVars, cacheVars, viewVars, deskInput, files_scanned,
                   bytes_scanned, desk_total_files, desk_emitted>>

\* process_entry, lines 219-279, for the next entry of the directory
DeskEntry ==
    /\ desk_pc = "scan"
    /\ DeskTop.entered
    /\ DeskTop.idx <= Len(DeskTop.entries)
    /\ LET f == DeskTop
           path == f.entries[f.idx]
           k == DeskKindOf(path)
           size == IF k = "file" THEN FileSizeOf(path) ELSE 0
           advanced == [desk_stack EXCEPT ![Len(desk_stack)].idx = @ + 1]
       IN IF k = "badmeta"
          THEN /\ desk_stack' = advanced
               /\ desk_failed' = desk_failed \cup {path}
               /\ UNCHANGED <<files_scanned, bytes_scanned, desk_emitted>>
          ELSE /\ files_scanned' = files_scanned + 1
               /\ bytes_scanned' = bytes_scanned + size
               /\ desk_emitted' =
                    IF files_scanned' % DeskStride = 0
                    THEN Append(desk_emitted,
                                [type |-> "scan-progress", path |-> path,
                                 files_scanned |-> files_scanned',
                                 total_files |-> desk_total_files,
                                 bytes_scanned |-> bytes_scanned'])
                    ELSE desk_emitted
               /\ desk_stack' =
                    IF k = "file"
                    THEN [advanced EXCEPT ![Len(desk_stack)].children =
                              Append(@, DeskNode(path, size, FALSE, <<>>, 1))]
                    ELSE Append(advanced, DeskFrame(path, f.depth + 1))
               /\ UNCHANGED desk_failed
    /\ UNCHANGED <<scanVars, uiVars, dupVars, cacheVars, viewVars, deskInput, desk_pc,
                   desk_total_files, desk_result>>

\* scan_directory_recursive, lines 192-216: every entry was processed
DeskLeave ==
    /\ desk_pc = "scan"
    /\ DeskTop.entered
    /\ DeskTop.idx > Len(DeskTop.entries)
    /\ LET f == DeskTop
       IN DeskReturn(DeskRest,
             [ok |-> TRUE,
              node |-> DeskNode(f.path, SumField(f.children, 1, TRUE), TRUE,
                                SortChildren(f.children, Len(f.children)),
                                SumField(f.children, 1, FALSE))])
    /\ UNCHANGED <<scanVars, uiVars, dupVars, cacheVars, viewVars, deskInput, files_scanned,
                   bytes_scanned, desk_total_files, desk_emitted, desk_failed>>

\* the holder of the flag stores true while the scan runs
DeskCancel ==
    /\ desk_pc = "scan"
    /\ desk_flag.some
    /\ ~desk_flag.set
    /\ desk_flag' = [desk_flag EXCEPT !.set = TRUE]
    /\ UNCHANGED <<scanVars, uiVars, dupVars, cacheVars, viewVars, desk_root, desk_top, desk_sub,
                   max_depth, desk_pc, desk_stack, files_scanned, bytes_scanned,
                   desk_total_files, desk_emitted, desk_failed, desk_result>>

NextDesk ==
    \/ DeskValidate
    \/ DeskEnter
    \/ DeskEntry
    \/ DeskLeave
    \/ DeskCancel

SpecDesk == InitDesk /\ [][NextDesk]_vars

\* ------------------------------------------------------------------------
\* The build loop of Scanner::scan with the throttle of the program, over a
\* directory large enough to pass the opening burst
\* ------------------------------------------------------------------------
\* `nodes_sent % 50 == 0`, scaled
ThrottleStride == 2
\* `nodes_sent < 100`: in the program the burst is twice the stride
ThrottleBurst == 2 * ThrottleStride
\* files directly under the scan root
MaxFlat == 9

\* the Scanning events of a walk of n entries in which the entries were
\* processed one after the other and the 50 ms clock never fired
ScanningUpTo(n) == [i \in 1..(n \div ScanStride) |-> Scanning(i * ScanStride)]

RECURSIVE SumSizes(_, _)
\* bytes_processed once the entries i.. were all processed
SumSizes(es, i) ==
    IF i > Len(es) THEN 0 ELSE es[i].size + SumSizes(es, i + 1)

\* walker.rs line 246: the workers have enumerated a flat directory, the
\* tree holds the root and the root's NodeDiscovered was sent
InitBuild ==
    /\ kind = "local"
    /\ root_state = "dir"
    /\ \E n \in 0..MaxFlat : entries = WalkEntries(n, 0, 0, 0)
    /\ lines = <<>>
    /\ exit_status = 0
    /\ pc = "build"
    /\ result = "none"
    /\ wk = [w \in Workers |-> IdleWorker]
    /\ taken = 1..Len(entries)
    /\ processed = 1..Len(entries)
    /\ files_found = Len(entries)
    /\ bytes_processed = SumSizes(entries, 1)
    /\ last_progress_count = (Len(entries) \div ScanStride) * ScanStride
    /\ interrupted = FALSE
    /\ cancel_requested = FALSE
    /\ tree = with_root(<<>>)
    /\ path_to_node = MapInsert(EmptyMap, <<>>, 1)
    /\ sorted_entries = SortByDepth(processed, 0, MaxDepth)
    /\ bi = 1
    /\ total_size = 0
    /\ total_files = 0
    /\ nodes_sent = 0
    /\ emitted = <<Started>> \o ScanningUpTo(Len(entries))
                  \o <<NodeDiscovered(FileNodeNew(<<>>, TRUE), <<>>)>>
    /\ \E queued \in 0..QueueCap :
          /\ queued <= Len(emitted)
          /\ nrecv = Len(emitted) - queued
    /\ rx_alive = TRUE
    /\ UiIdle
    /\ DupIdle
    /\ OtherIdle

\* the build loop with the burst at twice the stride, as in the program
ScanBuildStepExact ==
    /\ kind = "local"
    /\ pc = "build"
    /\ BuildStep(ThrottleBurst, ThrottleStride)

NextBuild ==
    \/ ScanBuildStepExact
    \/ ScanFinish
    \/ TryRecv

SpecBuild == InitBuild /\ [][NextBuild]_vars

\* ------------------------------------------------------------------------
\* Scan cache (src/cache.rs) and its use at start-up (src/main.rs)
\* ------------------------------------------------------------------------
\* Option<usize>::None
NoIndex == -1

\* the path the program is asked to scan, and another one
RequestedRoot == <<>>
OtherRoot == <<1>>
RootPaths == {RequestedRoot, OtherRoot}

\* ages, in seconds, of the cache file's modification time
Ages == {0, CACHE_MAX_AGE_SECS - 1, CACHE_MAX_AGE_SECS, CACHE_MAX_AGE_SECS + 1}

\* versions a cache file may carry
Versions == {CACHE_VERSION, CACHE_VERSION + 1}

\* children_indices of the nodes of a cache file that was not written by
\* save: repeated, cyclic and out-of-range indices included
ChildLists == {<<>>, <<0>>, <<1>>, <<1, 1>>, <<2, 1>>, <<1, 3>>}

\* the CachedNode pushed by collect_nodes_recursive, lines 215-227, without
\* the fields no claim reads
CachedNodeOf_NoSize(node, parent_index) ==
    [path |-> node.path, size |-> 0, is_dir |-> node.is_dir,
     file_count |-> node.file_count, parent_index |-> parent_index,
     children_indices |-> <<>>]

CachedNodeOf(node, parent_index) ==
    [path |-> node.path, size |-> node.size, is_dir |-> node.is_dir,
     file_count |-> node.file_count, parent_index |-> parent_index,
     children_indices |-> <<>>]

RECURSIVE collect_nodes_recursive(_, _, _, _)
RECURSIVE CollectChildren(_, _, _, _, _)

\* the `for child_id in tree.get_children(node_id)` loop, lines 230-232
CollectChildren(t, children, i, acc, index) ==
    IF i > Len(children) THEN acc
    ELSE CollectChildren(t, children, i + 1,
                         collect_nodes_recursive(t, children[i], acc, index),
                         index)

\* CacheManager::collect_nodes_recursive; acc holds nodes and path_to_index
collect_nodes_recursive(t, node_id, acc, parent_index) ==
    LET node == t.arena[node_id]
        index == Len(acc.nodes)
        pushed == [nodes |-> Append(acc.nodes, CachedNodeOf(node, parent_index)),
                   path_to_index |-> MapInsert(acc.path_to_index, node.path, index)]
    IN CollectChildren(t, get_children(t.arena, node_id), 1, pushed, index)

RECURSIVE IndicesOf(_, _, _, _)
\* children_paths.iter().filter_map(|p| path_to_index.get(p).copied())
IndicesOf(t, children, i, path_to_index) ==
    IF i > Len(children) THEN <<>>
    ELSE LET p == t.arena[children[i]].path
         IN (IF p \in DOMAIN path_to_index THEN <<path_to_index[p]>> ELSE <<>>)
            \o IndicesOf(t, children, i + 1, path_to_index)

\* the second pass of tree_to_cache_entry, lines 153-167, for nodes[i]
WithChildren(t, cached, path_to_index) ==
    LET node_id == find_by_path(t, cached.path)
    IN IF node_id = NoNode THEN cached
       ELSE [cached EXCEPT !.children_indices =
                IndicesOf(t, get_children(t.arena, node_id), 1, path_to_index)]

\* CacheManager::tree_to_cache_entry
tree_to_cache_entry(t, root_path) ==
    LET none == [nodes |-> <<>>, path_to_index |-> EmptyMap]
        acc == IF t.root # NoNode
               THEN collect_nodes_recursive(t, t.root, none, NoIndex)
               ELSE none
    IN [root_path |-> root_path,
        version |-> CACHE_VERSION,
        nodes |-> [i \in 1..Len(acc.nodes) |->
                      WithChildren(t, acc.nodes[i], acc.path_to_index)],
        root_index |-> IF t.root # NoNode
                       THEN acc.path_to_index[t.arena[t.root].path]
                       ELSE NoIndex,
        total_size |-> IF t.root # NoNode THEN t.arena[t.root].size ELSE 0,
        total_files |-> IF t.root # NoNode THEN t.arena[t.root].file_count ELSE 0]

\* a cache file: the age of its modification time, whether serde_json reads
\* it, and the CacheEntry it holds
CacheFile(age, parses, entry) ==
    [exists |-> TRUE, age |-> age, parses |-> parses, entry |-> entry]

\* the file save writes for a scan of an empty directory
FreshFile ==
    CacheFile(0, TRUE, tree_to_cache_entry(with_root(RequestedRoot), RequestedRoot))

\* CachedNode number i of a file that save did not write
ForeignNode(i, children_indices) ==
    [path |-> IF i = 0 THEN RequestedRoot ELSE <<i>>, size |-> 0,
     is_dir |-> TRUE, file_count |-> 0, parent_index |-> NoIndex,
     children_indices |-> children_indices]

\* entries of the current version and the requested root: any children
\* lists, any root_index
ShapedEntries ==
    UNION {
        {[root_path |-> RequestedRoot, version |-> CACHE_VERSION,
          nodes |-> [i \in 1..n |-> ForeignNode(i - 1, cl[i])],
          root_index |-> ri, total_size |-> 0, total_files |-> 0] :
            ri \in {NoIndex} \cup 0..n, cl \in [1..n -> ChildLists]} :
        n \in 0..MaxCacheNodes}

\* entries of one node, of any version and root
LabelledEntries ==
    {[root_path |-> r, version |-> v, nodes |-> <<ForeignNode(0, <<>>)>>,
      root_index |-> 0, total_size |-> 0, total_files |-> 0] :
        r \in RootPaths, v \in Versions}

\* the cache files a run may find. The nodes of an entry are read only
\* after its age, version and root passed, so files of every shape are
\* fresh and current, and files of every age, version and root have one node
ForeignFiles ==
    {CacheFile(0, TRUE, e) : e \in ShapedEntries}
    \cup {CacheFile(a, TRUE, e) : a \in Ages, e \in LabelledEntries}
    \cup {CacheFile(0, FALSE, [nodes |-> <<>>])}

\* sizes of the files of a scanned tree
FileSizes == {1, 2}

\* the trees one more insertion of the build loop can make of t: a child of a
\* directory, not shallower than the node inserted last
Grow(t) ==
    {add_child(t, p, [FileNodeNew(Append(t.arena[p].path,
                                         Len(get_children(t.arena, p)) + 1), d)
                         EXCEPT !.size = IF d THEN 0 ELSE s]) :
        p \in {q \in 1..Len(t.arena) :
                  /\ t.arena[q].is_dir
                  /\ Len(t.arena[q].path) + 1 >= Len(t.arena[Len(t.arena)].path)},
        d \in BOOLEAN, s \in FileSizes}

RECURSIVE GrownTrees(_)
\* the trees of at most n nodes the build loop can make
GrownTrees(n) ==
    IF n <= 1 THEN {with_root(RequestedRoot)}
    ELSE LET smaller == GrownTrees(n - 1)
         IN smaller \cup UNION {Grow(t) : t \in smaller}

\* the trees a completed local scan delivers
ScannedTrees == {calculate_sizes(t) : t \in GrownTrees(MaxTreeNodes)}

\* has_valid_cache, lines 95-111
has_valid_cache(file) ==
    IF ~file.exists THEN FALSE
    ELSE file.age < CACHE_MAX_AGE_SECS

\* CacheManager::load, lines 114-126: the entry, or NoFile for None
load(file, path) ==
    IF ~file.exists \/ ~file.parses THEN NoFile
    ELSE IF file.entry.version # CACHE_VERSION \/ file.entry.root_path # path
    THEN NoFile
    ELSE file

\* cache_entry_to_tree up to its loop, lines 238-267: TRUE when it goes on
RebuildStarts(entry) ==
    /\ entry.nodes # <<>>
    /\ entry.root_index # NoIndex
    /\ entry.root_index < Len(entry.nodes)

\* the root of the rebuilt tree, lines 245-256
RebuiltRoot(entry) ==
    LET root_cached == entry.nodes[entry.root_index + 1]
    IN [with_root(root_cached.path) EXCEPT
           !.arena[1].size = root_cached.size,
           !.arena[1].file_count = root_cached.file_count]

\* line 274 without the test
Visited_Never(visited, child_idx) == FALSE

\* visited.contains(&child_idx), line 274
Visited(visited, child_idx) == child_idx \in visited

RECURSIVE RebuildChildren(_, _, _, _, _)
\* the `for &child_idx in &cached.children_indices` loop, lines 272-295;
\* st holds the tree, the visited set, the queue and the indices inserted
RebuildChildren(entry, children, i, parent_node_id, st) ==
    IF i > Len(children) THEN st
    ELSE LET child_idx == children[i]
         IN IF Visited(st.visited, child_idx)
            THEN RebuildChildren(entry, children, i + 1, parent_node_id, st)
            ELSE LET seen == [st EXCEPT !.visited = @ \cup {child_idx}]
                 IN IF child_idx < Len(entry.nodes)
                    THEN LET child_cached == entry.nodes[child_idx + 1]
                             child_node ==
                                 [FileNodeNew(child_cached.path, child_cached.is_dir)
                                     EXCEPT !.size = child_cached.size,
                                            !.file_count = child_cached.file_count]
                             child_node_id == NewNodeId(seen.tree)
                         IN RebuildChildren(entry, children, i + 1, parent_node_id,
                                [seen EXCEPT
                                    !.tree = add_child(@, parent_node_id, child_node),
                                    !.queue = Append(@, <<child_idx, child_node_id>>),
                                    !.inserted = Append(@, child_idx)])
                    ELSE RebuildChildren(entry, children, i + 1, parent_node_id, seen)

cacheInput == <<use_cache>>

InitCache ==
    /\ kind = "local"
    /\ root_state = "missing"
    /\ entries = <<>>
    /\ lines = <<>>
    /\ exit_status = 0
    /\ ScanStart
    /\ UiIdle
    /\ DupIdle
    /\ DeskIdle
    /\ ViewIdle
    /\ use_cache \in BOOLEAN
    /\ cache_file \in {NoFile} \cup ForeignFiles
    \* a run without the cache reads no file: one present file stands for all
    /\ use_cache \/ cache_file \in {NoFile, FreshFile}
    /\ cache_src = FileTreeNew
    /\ CacheBegin

\* run_tui_mode, lines 280-283 and 304-307: the three tests, and
\* cache_entry_to_tree up to its loop; a failed test starts the scan
CacheStartup ==
    /\ cache_pc = "start"
    /\ LET file == IF use_cache /\ has_valid_cache(cache_file)
                   THEN load(cache_file, RequestedRoot)
                   ELSE NoFile
       IN IF file.exists /\ RebuildStarts(file.entry)
          THEN /\ cache_tree' = RebuiltRoot(file.entry)
               /\ cache_visited' = {file.entry.root_index}
               /\ cache_queue' = <<<<file.entry.root_index, 1>>>>
               /\ cache_inserted' = <<file.entry.root_index>>
               /\ cache_pc' = "rebuild"
          ELSE /\ cache_pc' = "scan"
               /\ UNCHANGED <<cache_tree, cache_visited, cache_queue, cache_inserted>>
    /\ UNCHANGED <<scanVars, uiVars, dupVars, deskVars, viewVars, cacheInput, cache_file,
                   cache_src, cache_loaded>>

\* one turn of `while let Some(..) = queue.pop()`, lines 269-296; the index
\* expression of line 270 panics when cache_idx is out of range
CacheRebuildStep ==
    /\ cache_pc = "rebuild"
    /\ cache_queue # <<>>
    /\ LET entry == cache_file.entry
           top == cache_queue[Len(cache_queue)]
           cache_idx == top[1]
           parent_node_id == top[2]
           popped == [tree |-> cache_tree, visited |-> cache_visited,
                      queue |-> SubSeq(cache_queue, 1, Len(cache_queue) - 1),
                      inserted |-> cache_inserted]
       IN IF cache_idx >= Len(entry.nodes)
          THEN /\ cache_pc' = "panic"
               /\ UNCHANGED <<cache_tree, cache_visited, cache_queue, cache_inserted>>
          ELSE LET st == RebuildChildren(entry, entry.nodes[cache_idx + 1].children_indices,
                                         1, parent_node_id, popped)
               IN /\ cache_tree' = st.tree
                  /\ cache_visited' = st.visited
                  /\ cache_queue' = st.queue
                  /\ cache_inserted' = st.inserted
                  /\ UNCHANGED cache_pc
    /\ UNCHANGED <<scanVars, uiVars, dupVars, deskVars, viewVars, cacheInput, cache_file,
                   cache_src, cache_loaded>>

\* cache_entry_to_tree returns Some(tree), line 298, and run_tui_mode
\* installs it, lines 284-297
CacheInstall ==
    /\ cache_pc = "rebuild"
    /\ cache_queue = <<>>
    /\ cache_loaded' = TRUE
    /\ cache_pc' = "ready"
    /\ UNCHANGED <<scanVars, uiVars, dupVars, deskVars, viewVars, cacheInput, cache_file,
                   cache_src, cache_tree, cache_visited, cache_queue, cache_inserted>>

\* the scan started at line 306 completes and run_app saves its tree,
\* lines 345-349
CacheScanCompleted ==
    /\ cache_pc = "scan"
    /\ \E t \in ScannedTrees :
          /\ cache_tree' = t
          /\ IF use_cache
             THEN /\ cache_file' = CacheFile(0, TRUE, tree_to_cache_entry(t, RequestedRoot))
                  /\ cache_src' = t
             ELSE UNCHANGED <<cache_file, cache_src>>
    /\ cache_pc' = "saved"
    /\ UNCHANGED <<scanVars, uiVars, dupVars, deskVars, viewVars, cacheInput, cache_loaded,
                   cache_visited, cache_queue, cache_inserted>>

\* the program is run again on the same path, some time later
CacheRunAgain ==
    /\ cache_pc = "saved"
    /\ \E a \in Ages :
          cache_file' = IF cache_file.exists THEN [cache_file EXCEPT !.age = a]
                        ELSE cache_file
    /\ cache_pc' = "start"
    /\ cache_loaded' = FALSE
    /\ cache_tree' = FileTreeNew
    /\ cache_queue' = <<>>
    /\ cache_visited' = {}
    /\ cache_inserted' = <<>>
    /\ UNCHANGED <<scanVars, uiVars, dupVars, deskVars, viewVars, cacheInput, cache_src>>

NextCache ==
    \/ CacheStartup
    \/ CacheRebuildStep
    \/ CacheInstall
    \/ CacheScanCompleted
    \/ CacheRunAgain

SpecCache == InitCache /\ [][NextCache]_vars

\* cache_entry_to_tree runs in one thread: its next step is taken
SpecCacheLive ==
    SpecCache /\ WF_vars(CacheRebuildStep) /\ WF_vars(CacheInstall)

\* ------------------------------------------------------------------------
\* Treemap of the terminal UI: render_treemap, squarify (src/ui/treemap.rs)
\* and the mouse handlers of App (src/app.rs)
\* ------------------------------------------------------------------------
\* widest and highest inner area of the treemap pane, in cells
MaxMapWidth == 4
MaxMapHeight == 2

\* sizes of the children of the treemap root, in tree order. The sizes of a
\* list add up to 0 or 4, so that every f64 of the layout is a multiple of
\* 1/4 and the f64 arithmetic of squarify is exact
MapChildLists ==
    {<<>>, <<0>>, <<4>>, <<1, 3>>, <<2, 2>>, <<2, 0, 2>>, <<1, 2, 1>>,
     <<1, 1, 1, 1>>}

Min(a, b) == IF a < b THEN a ELSE b
Max(a, b) == IF a > b THEN a ELSE b

\* f64::round of the non-negative value n / den
Round(n, den) == (2 * n + den) \div (2 * den)

RECURSIVE SumSeqOf(_, _)
SumSeqOf(sizes, i) ==
    IF i > Len(sizes) THEN 0 ELSE sizes[i] + SumSeqOf(sizes, i + 1)

RECURSIVE ItemsFrom(_, _)
\* lines 132-153: the children with a size, as (node id, size); the root
\* is node 1 and its k-th child node k + 1
ItemsFrom(sizes, i) ==
    IF i > Len(sizes) THEN <<>>
    ELSE (IF sizes[i] > 0 THEN <<[node_id |-> i + 1, size |-> sizes[i]]>>
          ELSE <<>>)
         \o ItemsFrom(sizes, i + 1)

InsertItem(sorted, x) ==
    LET k == Cardinality({i \in 1..Len(sorted) : sorted[i].size >= x.size})
    IN SubSeq(sorted, 1, k) \o <<x>> \o SubSeq(sorted, k + 1, Len(sorted))

RECURSIVE SortItems(_, _)
\* line 156: items.sort_by(|a, b| b.1.cmp(&a.1)), a stable sort
SortItems(items, n) ==
    IF n = 0 THEN <<>>
    ELSE InsertItem(SortItems(items, n - 1), items[n])

RECURSIVE squarify_from(_, _, _, _, _, _)
\* the loop of squarify from item i on. The f64 values (curr_x, curr_y,
\* curr_width, curr_height and the rectangles) are numerators over
\* total_size; the area starts at (0, 0)
squarify_from(items, i, curr, width, height, total) ==
    IF i > Len(items) THEN <<>>
    ELSE LET item_area == items[i].size * width * height
             rect_width ==
                 IF curr.horizontal
                 THEN Min(IF curr.height > 0
                          THEN (item_area * total) \div curr.height
                          ELSE 0, curr.width)
                 ELSE curr.width
             rect_height ==
                 IF curr.horizontal THEN curr.height
                 ELSE Min(IF curr.width > 0
                          THEN (item_area * total) \div curr.width
                          ELSE 0, curr.height)
             placed == [node_id |-> items[i].node_id, x |-> curr.x, y |-> curr.y,
                        width |-> rect_width, height |-> rect_height]
             after ==
                 IF curr.horizontal
                 THEN IF curr.width - rect_width <= total
                      THEN [curr EXCEPT !.horizontal = FALSE, !.x = 0,
                                        !.width = width * total]
                      ELSE [curr EXCEPT !.x = @ + rect_width,
                                        !.width = @ - rect_width]
                 ELSE IF curr.height - rect_height <= total
                      THEN [curr EXCEPT !.horizontal = TRUE, !.y = 0,
                                        !.height = height * total]
                      ELSE [curr EXCEPT !.y = @ + rect_height,
                                        !.height = @ - rect_height]
         IN <<placed>> \o squarify_from(items, i + 1, after, width, height, total)

\* squarify(items, x, y, width, height, total_size) with x = y = 0
squarify(items, width, height, total) ==
    IF items = <<>> \/ total = 0 \/ width <= 0 \/ height <= 0 THEN <<>>
    ELSE squarify_from(items, 1,
                       [x |-> 0, y |-> 0, width |-> width * total,
                        height |-> height * total,
                        horizontal |-> width >= height],
                       width, height, total)

RECURSIVE RenderRects(_, _, _, _, _)
\* lines 179-222: the layout rounded to cells and clamped to the area
RenderRects(layout, i, width, height, total) ==
    IF i > Len(layout) THEN <<>>
    ELSE LET l == layout[i]
             rx == Round(l.x, total)
             ry == Round(l.y, total)
             rw == Max(Round(l.width, total), 1)
             rh == Max(Round(l.height, total), 1)
             clamped_w == Min(rw, width - rx)
             clamped_h == Min(rh, height - ry)
         IN (IF rx >= width \/ ry >= height \/ clamped_w = 0 \/ clamped_h = 0
             THEN <<>>
             ELSE <<[node_id |-> l.node_id, x |-> rx, y |-> ry,
                     width |-> clamped_w, height |-> clamped_h]>>)
            \o RenderRects(layout, i + 1, width, height, total)

\* render_treemap for a root whose children have the sizes `sizes`; a root
\* without children is a file of one byte
render_treemap(area, sizes) ==
    LET root_size == IF sizes = <<>> THEN 1 ELSE SumSeqOf(sizes, 1)
        found == ItemsFrom(sizes, 1)
        items == SortItems(found, Len(found))
    IN IF root_size = 0 THEN <<>>
       ELSE IF sizes = <<>>
       THEN <<[node_id |-> 1, x |-> 0, y |-> 0, width |-> area.width,
               height |-> area.height]>>
       ELSE IF items = <<>> THEN <<>>
       ELSE RenderRects(squarify(items, area.width, area.height, root_size), 1,
                        area.width, area.height, root_size)

\* TreemapRect::contains
contains(rect, px, py) ==
    /\ px >= rect.x /\ px < rect.x + rect.width
    /\ py >= rect.y /\ py < rect.y + rect.height

\* treemap_rects.iter().find(|rect| rect.contains(x, y)).map(|rect| rect.node_id)
find_rect(rects, px, py) ==
    LET hits == {i \in 1..Len(rects) : contains(rects[i], px, py)}
    IN IF hits = {} THEN NoNode
       ELSE rects[CHOOSE i \in hits : \A j \in hits : i <= j].node_id

mapInput == <<map_area, map_children>>

\* the terminal shows the treemap pane of a scanned directory
InitMap ==
    /\ kind = "local"
    /\ root_state = "missing"
    /\ entries = <<>>
    /\ lines = <<>>
    /\ exit_status = 0
    /\ ScanStart
    /\ UiIdle
    /\ DupIdle
    /\ DeskIdle
    /\ CacheIdle
    /\ ExportIdle
    /\ map_area \in [width : 1..MaxMapWidth, height : 1..MaxMapHeight]
    /\ map_children \in MapChildLists
    /\ MapBegin

\* ui::draw: it stores what render_treemap returns in App::treemap_rects
MapDraw ==
    /\ map_pc = "start"
    /\ treemap_rects' = render_treemap(map_area, map_children)
    /\ map_pc' = "drawn"
    /\ UNCHANGED <<scanVars, uiVars, dupVars, deskVars, cacheVars, exportVars,
                   mapInput, mouse_pos, hovered_node, clicked_node>>

\* App::update_mouse_pos(x, y), the mouse over a cell of the pane
MapMouseMove ==
    /\ map_pc = "drawn"
    /\ \E px \in 0..(map_area.width - 1), py \in 0..(map_area.height - 1) :
        /\ mouse_pos' = [some |-> TRUE, x |-> px, y |-> py]
        /\ hovered_node' = find_rect(treemap_rects, px, py)
    /\ UNCHANGED <<scanVars, uiVars, dupVars, deskVars, cacheVars, exportVars,
                   mapInput, map_pc, treemap_rects, clicked_node>>

\* App::handle_treemap_click(x, y), a click on the cell the mouse is over
MapClick ==
    /\ map_pc = "drawn"
    /\ mouse_pos.some
    /\ clicked_node' = find_rect(treemap_rects, mouse_pos.x, mouse_pos.y)
    /\ UNCHANGED <<scanVars, uiVars, dupVars, deskVars, cacheVars, exportVars,
                   mapInput, map_pc, treemap_rects, mouse_pos, hovered_node>>

NextMap ==
    \/ MapDraw
    \/ MapMouseMove
    \/ MapClick

SpecMap == InitMap /\ [][NextMap]_vars

\* ------------------------------------------------------------------------
\* JSON export, full mode: export_json with top_n = None
\* (src/export/json.rs)
\* ------------------------------------------------------------------------
\* nothing written or parsed yet
NoJson == [kind |-> "none"]

\* the JSON document `null`, and Option::<ExportNode>::None parsed from it
JsonNull == [kind |-> "null"]

\* a JSON document holding one object, and Some(ExportNode) parsed from it
JsonValue(v) == [kind |-> "value", value |-> v]

\* FileNode::name: the last component of the path, the path itself for `/`
ExportName(path) == IF path = <<>> THEN path ELSE <<path[Len(path)]>>

RECURSIVE tree_to_export_node(_, _)
RECURSIVE ExportChildren(_, _, _)
\* lines 28-32: the children of a node, in the order of get_children
ExportChildren(t, ids, i) ==
    IF i > Len(ids) THEN <<>>
    ELSE <<tree_to_export_node(t, ids[i])>> \o ExportChildren(t, ids, i + 1)

\* tree_to_export_node(tree, node_id)
tree_to_export_node(t, node_id) ==
    LET node == t.arena[node_id]
    IN [path |-> node.path, name |-> ExportName(node.path), size |-> node.size,
        is_dir |-> node.is_dir,
        children |-> ExportChildren(t, get_children(t.arena, node_id), 1)]

RECURSIVE to_json(_)
\* Serialize for ExportNode: the object of a node; the key "children" is
\* left out where the list is empty (skip_serializing_if, line 13)
to_json(n) ==
    LET fields == [path |-> n.path, name |-> n.name, size |-> n.size,
                   is_dir |-> n.is_dir]
    IN IF n.children = <<>> THEN fields
       ELSE fields @@ [children |-> [i \in 1..Len(n.children) |->
                                        to_json(n.children[i])]]

\* a parser that reads no "children" key
from_json_Childless(object) ==
    [path |-> object.path, name |-> object.name, size |-> object.size,
     is_dir |-> object.is_dir, children |-> <<>>]

RECURSIVE from_json(_)
\* Deserialize for ExportNode: a missing "children" key gives the empty
\* list (serde default, line 13)
from_json(object) ==
    [path |-> object.path, name |-> object.name, size |-> object.size,
     is_dir |-> object.is_dir,
     children |-> IF "children" \in DOMAIN object
                  THEN [i \in 1..Len(object.children) |->
                           from_json(object.children[i])]
                  ELSE <<>>]

\* export_json(tree, ExportOptions { top_n: None }, writer)
export_json(t) ==
    IF t.root = NoNode THEN JsonNull
    ELSE JsonValue(to_json(tree_to_export_node(t, t.root)))

\* most nodes of an exported tree
MaxExportNodes == 4

\* the trees a scan can hand to the export, the rootless one included
ExportTrees ==
    {calculate_sizes(t) : t \in GrownTrees(MaxExportNodes)} \cup {FileTreeNew}

InitExport ==
    /\ kind = "local"
    /\ root_state = "missing"
    /\ entries = <<>>
    /\ lines = <<>>
    /\ exit_status = 0
    /\ ScanStart
    /\ UiIdle
    /\ DupIdle
    /\ DeskIdle
    /\ CacheIdle
    /\ MapIdle
    /\ exp_tree \in ExportTrees
    /\ ExportBegin

\* export_json in full mode writes the document
ExportWrite ==
    /\ exp_pc = "start"
    /\ exp_out' = export_json(exp_tree)
    /\ exp_pc' = "written"
    /\ UNCHANGED <<scanVars, uiVars, dupVars, deskVars, cacheVars, mapVars,
                   exp_tree, exp_parsed, exp_again>>

\* serde_json::from_str::<Option<ExportNode>> reads the document
ExportParse ==
    /\ exp_pc = "written"
    /\ exp_parsed' = IF exp_out = JsonNull THEN JsonNull
                     ELSE JsonValue(from_json(exp_out.value))
    /\ exp_pc' = "parsed"
    /\ UNCHANGED <<scanVars, uiVars, dupVars, deskVars, cacheVars, mapVars,
                   exp_tree, exp_out, exp_again>>

\* serde_json::to_writer_pretty writes the parsed value
ExportRewrite ==
    /\ exp_pc = "parsed"
    /\ exp_again' = IF exp_parsed = JsonNull THEN JsonNull
                    ELSE JsonValue(to_json(exp_parsed.value))
    /\ exp_pc' = "rewritten"
    /\ UNCHANGED <<scanVars, uiVars, dupVars, deskVars, cacheVars, mapVars,
                   exp_tree, exp_out, exp_parsed>>

NextExport ==
    \/ ExportWrite
    \/ ExportParse
    \/ ExportRewrite

SpecExport == InitExport /\ [][NextExport]_vars

\* ------------------------------------------------------------------------
\* Properties of the scan
\* ------------------------------------------------------------------------
IsType(i, ty) == emitted[i].type = ty
Events == 1..Len(emitted)

\* the scanning thread or a worker stands at a progress_tx.send(..)
BuildStepSends ==
    /\ pc = "build" /\ kind = "local" /\ bi <= Len(sorted_entries)
    /\ LET e == entries[sorted_entries[bi]]
       IN /\ e.path # <<>>
          /\ PathParent(e.path) \in DOMAIN path_to_node
          /\ NodeEmitted(nodes_sent + 1)
PendingSend ==
    \/ pc = "validate" /\ root_state = "dir"
    \/ \E w \in Workers : wk[w].pc \in {"send", "error"}
    \/ pc = "parallel" /\ kind = "local" /\ WorkersJoined /\ ~interrupted
    \/ BuildStepSends
    \/ pc = "build" /\ kind = "local" /\ bi > Len(sorted_entries)
    \/ /\ pc = "lines" /\ bi <= Len(lines) /\ lines[bi].fields >= 3
       /\ (files_found + 1) % ListingStride = 0
    \/ pc = "lines" /\ bi > Len(lines)

\* number of non-directory nodes of a tree
NonDirCount(t) == Cardinality({id \in 1..Len(t.arena) : ~t.arena[id].is_dir})

\* C1: after calculate_sizes() returns, every non-excluded directory of the
\* tree, childless ones included, carries the sum of its children's sizes and
\* file counts (the scan has just run calculate_sizes when it returns Ok)
C1_AggregatedAfterCalculate ==
    (pc = "done" /\ result = "Ok") => Aggregated(tree)

\* C2: the tree the UI builds from NodeDiscovered events, on which
\* calculate_sizes() may have run, keeps the aggregation invariant through
\* every add_size_to_ancestors call of the streaming construction
C2_StreamingKeepsAggregation ==
    ui_tree.some => Aggregated(ui_tree.tree)

\* C3: no send of the scanner waits for queue space: whenever the scanner
\* stands at a send while the queue is full, the send still returns
C3_NoSendWaits ==
    ~(PendingSend /\ rx_alive /\ QueueLen = QueueCap)

\* C4: Completed is the last event of a scan: nothing is placed on the
\* progress channel after it
C4_CompletedIsLast ==
    \A i \in Events : IsType(i, "Completed") => i = Len(emitted)

C4_Witness ==
    /\ kind = "local" /\ pc = "done"
    /\ \E i \in Events : IsType(i, "Completed")
    /\ \E i \in Events : IsType(i, "Scanning")
    /\ \E i \in Events : IsType(i, "Error")

\* C5: the first event placed on the progress channel is Started, so no
\* Scanning or NodeDiscovered event precedes it
C5_StartedFirst ==
    /\ Len(emitted) > 0 => IsType(1, "Started")
    /\ \A i \in Events : emitted[i].type \in {"Scanning", "NodeDiscovered"} =>
          \E j \in 1..(i - 1) : IsType(j, "Started")

C5_Witness ==
    /\ \E i \in Events : IsType(i, "Scanning")
    /\ \E i \in Events : IsType(i, "NodeDiscovered")

\* C6: the NodeDiscovered event of a node other than the root is preceded by
\* the NodeDiscovered event of its parent
C6_ParentDiscoveredFirst ==
    \A j \in Events :
        (IsType(j, "NodeDiscovered") /\ emitted[j].node.path # <<>>) =>
            \E i \in 1..(j - 1) :
                /\ IsType(i, "NodeDiscovered")
                /\ emitted[i].node.path = emitted[j].parent_path

\* C7: the total_files of a Completed event is the number of non-directory
\* nodes of the tree the event carries
C7_TotalFilesIsNonDirCount ==
    \A i \in Events :
        IsType(i, "Completed") =>
            emitted[i].total_files = NonDirCount(emitted[i].tree)

\* C8: every node of the tree is the node that find_by_path returns for its
\* path
C8_EveryNodeFoundByPath ==
    \A id \in 1..Len(tree.arena) :
        find_by_path(tree, tree.arena[id].path) = id

\* C9: a local scan that was asked to cancel while running returns
\* Interrupted and sends no Completed event
C9_CancelInterrupts ==
    cancel_requested =>
        /\ \A i \in Events : ~IsType(i, "Completed")
        /\ pc = "done" => result = "Interrupted"

\* C10: once the cancel flag is set while files remain to be processed,
\* find_duplicates emits no further progress event (so no "Complete") and
\* never returns a result; when it has returned, it returned the error
\* "Scan cancelled"
C10_CancelStopsDuplicateScan ==
    cancel_flag =>
        /\ Len(dup_emitted) = dup_cancel_at
        /\ dup_result.status # "ok"
        /\ dup_pc = "done" => dup_result = DupErr("Scan cancelled")

\* C11: a scan whose root does not exist, or exists but is not a directory,
\* fails before any event is emitted and produces no tree; here for the
\* desktop scanner
C11_InvalidRootFailsFast ==
    (desk_pc = "done" /\ desk_root \in {"missing", "file"}) =>
        /\ desk_result.status = "err"
        /\ desk_emitted = <<>>

\* C12: every I/O error met on an entry during enumeration is emitted as an
\* Error event naming the entry, and the scan still delivers a tree; here for
\* the desktop scanner
C12_EntryErrorsAreReported ==
    desk_pc = "done" =>
        \A path \in desk_failed :
            /\ \E i \in 1..Len(desk_emitted) :
                   desk_emitted[i].type = "Error" /\ desk_emitted[i].path = path
            /\ desk_result.status = "ok"

\* C13: a scan that fails fatally delivers no tree: when the remote listing
\* command fails, no Completed event is sent for that scan
C13_FatalFailureDeliversNoTree ==
    (kind = "remote" /\ exit_status # 0) =>
        \A i \in Events : ~IsType(i, "Completed")

\* the k-th node the build loop inserted has its NodeDiscovered in the stream
NodeAnnounced(k) ==
    \E i \in Events :
        /\ IsType(i, "NodeDiscovered")
        /\ emitted[i].node.path = tree.arena[k + 1].path

\* C14: NodeDiscovered is emitted for the root, for each of the first
\* ThrottleBurst (100) inserted nodes and afterwards for every
\* ThrottleStride-th (50th) node only; every entry the loop has passed is in
\* the tree, emitted or not
C14_NodeDiscoveredThrottle ==
    pc \in {"build", "done"} =>
        /\ \E i \in Events :
               IsType(i, "NodeDiscovered") /\ emitted[i].node.path = <<>>
        /\ \A k \in 1..nodes_sent :
               NodeAnnounced(k) <=> (k <= ThrottleBurst \/ k % ThrottleStride = 0)
        /\ Len(tree.arena) = nodes_sent + 1
        /\ \A j \in 1..(bi - 1) :
               find_by_path(tree, entries[sorted_entries[j]].path) # NoNode

\* a finished scan that went one stride past the burst: the last node of the
\* burst announced, the next one dropped, the one a stride later announced
C14_Witness ==
    /\ pc = "done"
    /\ nodes_sent >= ThrottleBurst + ThrottleStride
    /\ NodeAnnounced(ThrottleBurst)
    /\ ~NodeAnnounced(ThrottleBurst + 1)
    /\ NodeAnnounced(ThrottleBurst + ThrottleStride)

\* C15: the files_found values of the Scanning events never decrease along
\* the stream
C15_FilesFoundMonotonic ==
    \A i, j \in Events :
        (i < j /\ IsType(i, "Scanning") /\ IsType(j, "Scanning")) =>
            emitted[i].files_found <= emitted[j].files_found

\* the (group, position) pairs of the returned result
DupMembers ==
    {<<g, i>> : g \in 1..Len(dup_result.groups), i \in 1..MaxDupFiles} \cap
    {m \in (1..MaxDupFiles) \X (1..MaxDupFiles) :
        m[1] <= Len(dup_result.groups) /\ m[2] <= Len(dup_result.groups[m[1]].files)}

\* C16: every returned group has at least two files; each member has the
\* group's size, on disk and in its record, and the group's full digest
C16_GroupsAreDuplicates ==
    dup_result.status = "ok" =>
        \A g \in 1..Len(dup_result.groups) :
            LET group == dup_result.groups[g]
            IN /\ Len(group.files) >= 2
               /\ \A i \in 1..Len(group.files) :
                     /\ group.files[i].size = group.size
                     /\ DupSize(group.files[i].path) = group.size
                     /\ full_hash(group.files[i].path) = group.hash

\* a result with a group, found among files of which one has the group's
\* size and other content
C16_Witness ==
    /\ dup_result.status = "ok"
    /\ \E g \in 1..Len(dup_result.groups) :
          /\ Len(dup_result.groups[g].files) >= 2
          /\ \E f \in 1..Len(dup_files) :
                /\ DupSize(f) = dup_result.groups[g].size
                /\ full_hash(f) # dup_result.groups[g].hash

CacheValid(file) ==
    /\ file.entry.version = CACHE_VERSION
    /\ file.entry.root_path = RequestedRoot
    /\ file.age <= CACHE_MAX_AGE_SECS

\* C18: with the cache enabled and a readable cache file whose root index
\* names one of its nodes, start-up uses the cached scan if and only if the
\* file's version is the current one, its root is the requested path and its
\* age is at most seven days
C18_CacheUsedIffValid ==
    (/\ cache_pc \in {"scan", "ready"}
     /\ use_cache
     /\ cache_file.exists
     /\ cache_file.parses
     /\ RebuildStarts(cache_file.entry))
        => (cache_loaded <=> CacheValid(cache_file))

\* no panic, no cache index put in the tree twice, one tree node per index
RebuildGuarded ==
    /\ cache_pc # "panic"
    /\ \A i, j \in 1..Len(cache_inserted) :
          i # j => cache_inserted[i] # cache_inserted[j]
    /\ cache_pc \in {"rebuild", "ready"} =>
          /\ Len(cache_tree.arena) = Len(cache_inserted)
          /\ \A i \in 1..Len(cache_inserted) :
                cache_inserted[i] \in 0..(Len(cache_file.entry.nodes) - 1)

\* C19: for every cache file, cyclic, repeated and out-of-range child
\* indices included, the rebuild of the tree does not panic, puts each
\* cached index in the tree at most once, and ends
C19_RebuildTerminatesOnce ==
    /\ []RebuildGuarded
    /\ (cache_pc = "rebuild") ~> (cache_pc = "ready")

\* a finished rebuild from a file in which a child index is out of range and
\* a node inserted after the root lists the root as its child
C19_Witness ==
    /\ cache_pc = "ready"
    /\ cache_src = FileTreeNew
    /\ Len(cache_inserted) >= 2
    /\ LET nodes == cache_file.entry.nodes
       IN /\ \E i \in 1..Len(nodes) :
                \E c \in 1..Len(nodes[i].children_indices) :
                    nodes[i].children_indices[c] >= Len(nodes)
          /\ \E k \in 2..Len(cache_inserted) :
                LET children == nodes[cache_inserted[k] + 1].children_indices
                IN \E c \in 1..Len(children) :
                      children[c] = cache_file.entry.root_index

\* path of a node's parent, NoPath for the root
ParentPathOf(t, id) ==
    IF t.arena[id].parent = NoNode THEN NoPath
    ELSE t.arena[t.arena[id].parent].path

\* every node of a has a node of b with its path, size, file_count and
\* parent
Embeds(a, b) ==
    \A i \in 1..Len(a.arena) :
        \E j \in 1..Len(b.arena) :
            /\ a.arena[i].path = b.arena[j].path
            /\ a.arena[i].size = b.arena[j].size
            /\ a.arena[i].file_count = b.arena[j].file_count
            /\ ParentPathOf(a, i) = ParentPathOf(b, j)

\* C20: the tree start-up rebuilds from a cache file that save wrote has
\* the paths of the saved tree, the size and file_count of each node, and
\* the parent of each node
C20_SaveLoadRoundTrip ==
    (cache_pc = "ready" /\ cache_src # FileTreeNew) =>
        /\ Len(cache_tree.arena) = Len(cache_src.arena)
        /\ Embeds(cache_src, cache_tree)
        /\ Embeds(cache_tree, cache_src)

\* a tree of MaxTreeNodes nodes with a file inside a subdirectory, saved and
\* loaded again
C20_Witness ==
    /\ cache_pc = "ready"
    /\ Len(cache_src.arena) = MaxTreeNodes
    /\ \E i \in 1..Len(cache_src.arena) :
          /\ Len(cache_src.arena[i].path) = 2
          /\ ~cache_src.arena[i].is_dir
          /\ cache_src.arena[i].size = 2

RECURSIVE IsUnder(_, _, _)
\* node id lies strictly below node a
IsUnder(arena, id, a) ==
    LET parent == arena[id].parent
    IN IF parent = NoNode THEN FALSE
       ELSE parent = a \/ IsUnder(arena, parent, a)

\* C21: in the tree the UI holds, an excluded node counts 0 in every one of
\* its ancestors: each non-excluded ancestor carries the sum of what its
\* children report, an excluded child reporting 0, after calculate_sizes()
\* and after later add_size_to_ancestors() calls
C21_ExcludedCountsNothing ==
    ui_tree.some =>
        LET arena == ui_tree.tree.arena
        IN \A x \in 1..Len(arena) :
              arena[x].excluded =>
                  \A a \in 1..Len(arena) :
                      (IsUnder(arena, x, a) /\ ~arena[a].excluded) =>
                          /\ arena[a].size = ChildSizeSum(arena, a)
                          /\ arena[a].file_count = ChildCountSum(arena, a)

\* C22: a remote listing scan whose command printed no valid line ends in an
\* error and delivers no Completed event, also when the command itself
\* exited with status 0
C22_EmptyListingFails ==
    (/\ kind = "remote"
     /\ pc = "done"
     /\ exit_status = 0
     /\ \A i \in 1..Len(lines) : lines[i].fields < 3)
        => /\ result = "Err"
           /\ \A i \in Events : ~IsType(i, "Completed")

\* path p is a proper prefix of path q
IsProperPrefix(p, q) == Len(p) < Len(q) /\ SubSeq(q, 1, Len(p)) = p

RECURSIVE FileLinesUnder(_, _, _, _)
\* over the file lines i.. of a listing that lie under path p: the sum of
\* their sizes (what = "size") or their number (what = "count")
FileLinesUnder(listing, i, p, what) ==
    IF i > Len(listing) THEN 0
    ELSE (IF listing[i].type = "f" /\ IsProperPrefix(p, listing[i].path)
          THEN (IF what = "size" THEN listing[i].size ELSE 1)
          ELSE 0)
         + FileLinesUnder(listing, i + 1, p, what)

\* a listing of a directory tree: the root directory first, every line with
\* its three fields, no path twice, directory lines reporting 0, and every
\* other line's parent named by a directory line, in any position
TreeListing(listing) ==
    /\ Len(listing) >= 1
    /\ listing[1].path = <<>> /\ listing[1].type = "d"
    /\ \A i \in 1..Len(listing) :
          /\ listing[i].fields >= 3
          /\ listing[i].type = "d" => listing[i].size = 0
          /\ \A j \in 1..Len(listing) : i # j => listing[i].path # listing[j].path
          /\ i > 1 => \E j \in 1..Len(listing) :
                         /\ listing[j].type = "d"
                         /\ listing[j].path = PathParent(listing[i].path)

\* C23: after a remote listing of a directory tree is ingested, in whatever
\* order its lines after the first arrived, every directory of the tree
\* carries the sum of the sizes and the number of the file lines under it
C23_ListingSizesFromFiles ==
    (kind = "remote" /\ pc = "done" /\ result = "Ok" /\ TreeListing(lines)) =>
        \A i \in 1..Len(lines) :
            lines[i].type = "d" =>
                LET id == find_by_path(tree, lines[i].path)
                IN /\ id # NoNode
                   /\ tree.arena[id].size =
                          FileLinesUnder(lines, 1, lines[i].path, "size")
                   /\ tree.arena[id].file_count =
                          FileLinesUnder(lines, 1, lines[i].path, "count")

\* the rectangle produced latest among those that contain the point
LastHit(rects, px, py) ==
    LET hits == {i \in 1..Len(rects) : contains(rects[i], px, py)}
    IN IF hits = {} THEN NoNode
       ELSE rects[CHOOSE i \in hits : \A j \in hits : i >= j].node_id

\* C24: the node found for hover and for click is the one of the last
\* rectangle, in layout order, that contains the point
C24_HitIsLastRect ==
    (map_pc = "drawn" /\ mouse_pos.some) =>
        /\ hovered_node = LastHit(treemap_rects, mouse_pos.x, mouse_pos.y)
        /\ clicked_node \in {NoNode, LastHit(treemap_rects, mouse_pos.x, mouse_pos.y)}

\* a walk that, asked to include hidden entries, yields only the hidden ones
WalkWith_OnlyHidden(include_hidden) ==
    {f \in 1..Len(dup_files) : dup_files[f].hidden = include_hidden}

\* the files the walk of lines 76-89 yields under a given include_hidden
WalkWith(include_hidden) ==
    {f \in 1..Len(dup_files) : include_hidden \/ ~dup_files[f].hidden}

\* the buckets of a map filled by map.entry(key(f)).or_default().push(f)
BucketsBy(files, key(_)) == {{f \in files : key(f) = key(g)} : g \in files}

\* retain(|_, files| files.len() > 1)
Retained(buckets) == {b \in buckets : Cardinality(b) > 1}

\* the member sets of the groups find_duplicates returns for the files and
\* min_size of this run under a given include_hidden, every file being
\* readable: size groups (lines 111-137), prefix groups (152-189), digest
\* groups (192-237)
GroupsWith(include_hidden) ==
    LET sized == {f \in WalkWith(include_hidden) : DupSize(f) >= dup_config.min_size}
        by_size == Retained(BucketsBy(sized, DupSize))
        SizeAndPrefix(f) == <<DupSize(f), partial_hash(f)>>
        by_prefix == Retained(BucketsBy(UNION by_size, SizeAndPrefix))
    IN Retained(BucketsBy(UNION by_prefix, full_hash))

\* the member sets of the groups this run returned
ResultSets ==
    {{dup_result.groups[g].files[i].path : i \in 1..Len(dup_result.groups[g].files)} :
        g \in 1..Len(dup_result.groups)}

\* this run returned what a run that could read every file returns
DupAllRead ==
    /\ dup_pc = "done"
    /\ dup_result.status = "ok"
    /\ ResultSets = GroupsWith(dup_config.include_hidden)

C26_ExportFixedPoint ==
    exp_pc = "rewritten" => exp_again = exp_out

\* a re-exported tree of the most nodes, with a node that has children and
\* a node that has none
C26_Witness ==
    /\ exp_pc = "rewritten"
    /\ Len(exp_tree.arena) = MaxExportNodes
    /\ exp_again.kind = "value"
    /\ "children" \in DOMAIN exp_again.value
    /\ \E i \in 1..Len(exp_again.value.children) :
          "children" \notin DOMAIN exp_again.value.children[i]

\* C27: a call of scan_directory_recursive that finds the cancel flag set,
\* in the root or in a subdirectory, ends the whole scan with the error
\* "Scan cancelled"
C27_CancelIsFatal ==
    [][(/\ desk_pc = "scan"
        /\ desk_flag.some /\ desk_flag.set
        /\ ~DeskTop.entered
        /\ desk_stack' # desk_stack)
            => /\ desk_pc' = "done"
               /\ desk_result' = DeskErr("Scan cancelled")]_vars

\* C28: every NodeDiscovered event the UI has handled left its node in the
\* UI's tree, below the node of the event's parent path
C28_ReceivedNodeIsInTree ==
    \A i \in 1..nrecv :
        IsType(i, "NodeDiscovered") =>
            /\ ui_tree.some
            /\ LET id == find_by_path(ui_tree.tree, emitted[i].node.path)
               IN /\ id # NoNode
                  /\ id # ui_tree.tree.root =>
                        /\ ui_tree.tree.arena[id].parent # NoNode
                        /\ ui_tree.tree.arena[ui_tree.tree.arena[id].parent].path
                              = emitted[i].parent_path

\* NodeDiscovered events of the running scan that the UI has handled
NodesReceived ==
    Cardinality({i \in 1..nrecv : IsType(i, "NodeDiscovered")})

\* C29: a NodeDiscovered event handled while the UI still holds nodes that
\* the running scan did not report leaves that tree as it is
C29_RescanLeavesOldTree ==
    [][(/\ has_receiver
        /\ ui_tree.some
        /\ Len(ui_tree.tree.arena) > NodesReceived
        /\ nrecv' = nrecv + 1
        /\ emitted[nrecv + 1].type = "NodeDiscovered")
            => ui_tree' = ui_tree]_vars

\* C30: once the scanner thread has ended without sending Completed, the
\* scan state leaves Scanning
C30_LeavesScanning ==
    (/\ pc = "done"
     /\ \A i \in Events : ~IsType(i, "Completed")
     /\ scan_state = "Scanning")
        ~> (scan_state # "Scanning")

====
